---------------------------- MODULE Spec2Model ----------------------------
(* A model of aiml_virtual/airflow/airflow_sampler.py: the AirflowSampler   *)
(* that turns a drone's precomputed pressure / velocity cubes into the      *)
(* force and torque acting on a payload.                                    *)
(*                                                                          *)
(* Arithmetic is exact fixed point.  A position is an integer number of     *)
(* 1/PosScale centimetres (the code holds metres and multiplies by 100 to   *)
(* get centimetres).  A propeller speed key is an integer number of         *)
(* 1/SpeedScale speed units, so that the mean of four integer rotor speeds  *)
(* is an integer.  An optional value is a sequence: <<>> is Python's None   *)
(* (or an attribute that was never set), <<v>> is the value v.              *)
EXTENDS Integers, Sequences, FiniteSets, TLC

VARIABLES
    phase,      \* "new" before __init__, "ready" after it returned, "failed" after it raised
    ctor_args,  \* the arguments __init__ was called with
    sampler,    \* the AirflowSampler's attributes
    drone,      \* the owning Drone: pose and estimated propeller velocities
    payload,    \* the Payload object handed to generate_forces_opt
    ret,        \* outcome of the most recent call: what it returned or raised, and what it sampled
    sim,        \* the Simulator object and what its most recent operation did
    timer,      \* the PausableTime object and what its most recent call returned
    clock,      \* time.time(), in clock quanta
    probe       \* one coordinate of a patch taken through lines 72 and 216-227 in double precision

vars == <<phase, ctor_args, sampler, drone, payload, ret, sim, timer, clock, probe>>

-----------------------------------------------------------------------------
(* Bounds of the model *)

MaxCount == 28       \* flat grid files hold 0 .. MaxCount rows
MaxCubeSize == 3     \* dictionaries hold cubes of side 2 .. MaxCubeSize
MaxOffset == 1       \* set_payload_offset is called with 0 .. MaxOffset centimetres

(* Fixed-point resolutions *)
PosScale == 4        \* position units per centimetre
SpeedScale == 4      \* speed-key units per propeller speed unit

None == <<>>
Some(v) == <<v>>

-----------------------------------------------------------------------------
(* 3-vectors *)

Zero3 == <<0, 0, 0>>
VecAdd(a, b) == <<a[1] + b[1], a[2] + b[2], a[3] + b[3]>>
VecSub(a, b) == <<a[1] - b[1], a[2] - b[2], a[3] - b[3]>>
VecScale(s, a) == <<s * a[1], s * a[2], s * a[3]>>
VecDot(a, b) == a[1] * b[1] + a[2] * b[2] + a[3] * b[3]
VecCross(a, b) == <<a[2] * b[3] - a[3] * b[2],
                    a[3] * b[1] - a[1] * b[3],
                    a[1] * b[2] - a[2] * b[1]>>

(* v bound to a value once, then Body(v) *)
With(v, Body(_)) == CHOOSE r \in {Body(x) : x \in {v}} : TRUE

(* np.sum(s, axis=0) of a sequence of 3-vectors *)
RECURSIVE SumComponent(_, _, _)
SumComponent(s, c, k) == IF k = 0 THEN 0 ELSE SumComponent(s, c, k - 1) + s[k][c]

VecSum(s) == <<SumComponent(s, 1, Len(s)), SumComponent(s, 2, Len(s)), SumComponent(s, 3, Len(s))>>

RECURSIVE SumAbs(_)
SumAbs(s) == IF s = <<>> THEN 0
             ELSE (IF Head(s) < 0 THEN -Head(s) ELSE Head(s)) + SumAbs(Tail(s))

(* pos[condition]: the entries of s whose mask entry is TRUE, in order *)
RECURSIVE MaskSelect(_, _)
MaskSelect(s, mask) ==
    IF s = <<>> THEN <<>>
    ELSE (IF Head(mask) THEN <<Head(s)>> ELSE <<>>) \o MaskSelect(Tail(s), Tail(mask))

-----------------------------------------------------------------------------
(* Grid files and np.reshape *)

Cells(n) == (0 .. n - 1) \X (0 .. n - 1) \X (0 .. n - 1)

(* int(math.pow(shape0 + 1, 1/3)).  For arguments up to 63 the floating    *)
(* point power truncates to the integer cube root; math.pow(64, 1/3) is    *)
(* 3.9999999999999996 and truncates to 3.                                  *)
CubeSizeOf(shape0) ==
    LET x == shape0 + 1
        root == CHOOSE n \in 0 .. x : n * n * n <= x /\ (n + 1) * (n + 1) * (n + 1) > x
    IN IF x = 64 THEN 3 ELSE root

(* tmp.shape[0] of np.loadtxt's result for a file of rows x cols numbers:  *)
(* loadtxt squeezes, so one row of c numbers has shape (c,), and a single  *)
(* number has shape () whose [0] raises IndexError (None here).            *)
Shape0(rows, cols) ==
    IF rows = 1 /\ cols = 1 THEN None
    ELSE IF rows = 1 THEN Some(cols)
    ELSE Some(rows)

(* The numbers of a pressure file, in file order *)
PressureFile(count, variant) ==
    [f \in 0 .. count - 1 |-> IF variant = "uniform" THEN 100 ELSE 7 * f + 3]

(* The numbers of a velocity file, in file order *)
VelocityFile(count) ==
    [e \in 0 .. count - 1 |-> (e % 5) - 2]

(* a reshape in column-major order, first index fastest *)
ReshapeScalarFortran(tmp, n) ==
    [c \in Cells(n) |-> tmp[c[3] * n * n + c[2] * n + c[1]]]

(* np.reshape(tmp, (n, n, n)): C order, first index slowest *)
ReshapeScalar(tmp, n) ==
    [c \in Cells(n) |-> tmp[c[1] * n * n + c[2] * n + c[3]]]

(* np.reshape(tmp, (n, n, n, 3)) *)
ReshapeVector(tmp, n) ==
    [c \in Cells(n) |->
        LET f == 3 * (c[1] * n * n + c[2] * n + c[3])
        IN <<tmp[f], tmp[f + 1], tmp[f + 2]>>]

-----------------------------------------------------------------------------
(* BoxDictionary: cubes keyed by the propeller speed they were computed for *)

DictKeys == <<2 * SpeedScale, 4 * SpeedScale, 6 * SpeedScale>>

KeySet(dict) == {dict.keys[x] : x \in DOMAIN dict.keys}

PressureDictionary(n) ==
    [cube_size |-> n,
     keys |-> DictKeys,
     arrays |-> [key \in {DictKeys[x] : x \in DOMAIN DictKeys} |->
                    ReshapeScalar([f \in 0 .. n * n * n - 1 |->
                                      8 * (f + 1) + key * ((f % 3) + 1)], n)]]

VelocityDictionary(n) ==
    [cube_size |-> n,
     keys |-> DictKeys,
     arrays |-> [key \in {DictKeys[x] : x \in DOMAIN DictKeys} |->
                    ReshapeVector([e \in 0 .. 3 * n * n * n - 1 |->
                                      key * ((e % 3) - 1) + 8 * (e % 2)], n)]]

get_cube_size(dict) == dict.cube_size

-----------------------------------------------------------------------------
(* AirflowSampler.__init__ *)

NoSampler ==
    [USE_PRESSURE_DICTIONARY |-> None,
     USE_VELOCITY_DICTIONARY |-> None,
     use_velocity |-> None,
     cube_size |-> None,
     loaded_pressures |-> None,
     pressure_data |-> None,
     loaded_velocities |-> None,
     velocity_data |-> None,
     offset_from_drone_center |-> None,
     cube_size_meter |-> None,
     payload_offset_z |-> None,
     payload_offset_z_meter |-> None,
     index_upper_limit |-> None]

NoArgs ==
    [LOAD_PRESSURE_DICTIONARY |-> FALSE,
     pressure_dictionary_cube_size |-> 0,
     pressure_count |-> 0,
     pressure_variant |-> "uniform",
     LOAD_VELOCITY_DICTIONARY |-> FALSE,
     velocity_dictionary_cube_size |-> 0,
     data_file_name_velocity |-> None]

NoRet ==
    [op |-> "none", status |-> "ok", force |-> None, torque |-> None,
     abs_average_velocity |-> None, sides |-> <<>>]

Raised(op, error) ==
    [op |-> op, status |-> error, force |-> None, torque |-> None,
     abs_average_velocity |-> None, sides |-> <<>>]

(* a reshape that takes the leading elements and ignores the rest *)
ReshapeTruncates(count, shape_size) == shape_size > count

(* np.reshape (lines 36, 53) raises ValueError unless the new shape holds  *)
(* exactly the array's elements                                            *)
ReshapeFails(count, shape_size) == shape_size # count

(* lines 26-36: the pressure source.  Yields the attributes set so far and *)
(* the exception, if any, that ends the constructor.                       *)
LoadPressure(args) ==
    IF args.LOAD_PRESSURE_DICTIONARY
    THEN LET d == PressureDictionary(args.pressure_dictionary_cube_size)
         IN [error |-> None,
             self |-> [NoSampler EXCEPT !.USE_PRESSURE_DICTIONARY = Some(TRUE),
                                        !.USE_VELOCITY_DICTIONARY = Some(FALSE),
                                        !.loaded_pressures = Some(d),
                                        !.cube_size = Some(get_cube_size(d))]]
    ELSE LET shape0 == Shape0(args.pressure_count, 1)
             base == [NoSampler EXCEPT !.USE_PRESSURE_DICTIONARY = Some(FALSE),
                                       !.USE_VELOCITY_DICTIONARY = Some(FALSE)]
         IN IF shape0 = None
            THEN [error |-> Some("IndexError"), self |-> base]
            ELSE LET n == CubeSizeOf(shape0[1])
                     tmp == PressureFile(args.pressure_count, args.pressure_variant)
                 IN IF ReshapeFails(args.pressure_count, n * n * n)
                    THEN [error |-> Some("ValueError"),
                          self |-> [base EXCEPT !.cube_size = Some(n)]]
                    ELSE [error |-> None,
                          self |-> [base EXCEPT !.cube_size = Some(n),
                                                !.pressure_data = Some(ReshapeScalar(tmp, n))]]

(* line 43 without the comparison *)
VelocityDictionarySizeUnchecked(self, d) == FALSE

(* line 43: the velocity dictionary's cube size against self._cube_size *)
VelocityDictionarySizeMismatch(self, d) ==
    get_cube_size(d) # self.cube_size[1]

(* line 50: the velocity file's cube size against self._cube_size *)
VelocityFileSizeMismatch(self, shape0) ==
    self.cube_size[1] # CubeSizeOf(shape0)

(* lines 39-54: the velocity source, entered with the attributes `self`    *)
(* that the pressure part has set.                                         *)
LoadVelocity(args, self) ==
    IF args.LOAD_VELOCITY_DICTIONARY
    THEN LET d == VelocityDictionary(args.velocity_dictionary_cube_size)
             s1 == [self EXCEPT !.USE_VELOCITY_DICTIONARY = Some(TRUE),
                                !.loaded_velocities = Some(d)]
         IN IF s1.cube_size = None
            THEN [error |-> Some("AttributeError"), self |-> s1]
            ELSE IF VelocityDictionarySizeMismatch(s1, d)
            THEN [error |-> Some("RuntimeError"), self |-> s1]
            ELSE [error |-> None, self |-> s1]
    ELSE LET s1 == [self EXCEPT !.use_velocity = Some(FALSE)]
         IN IF args.data_file_name_velocity = None
            THEN [error |-> None, self |-> s1]
            ELSE LET file == args.data_file_name_velocity[1]
                     count == file.rows * file.cols
                     shape0 == Shape0(file.rows, file.cols)
                     n == s1.cube_size[1]
                 IN IF shape0 = None
                    THEN [error |-> Some("IndexError"), self |-> s1]
                    ELSE IF s1.cube_size = None
                    THEN [error |-> Some("AttributeError"), self |-> s1]
                    ELSE IF VelocityFileSizeMismatch(s1, shape0[1])
                    THEN [error |-> Some("RuntimeError"), self |-> s1]
                    ELSE IF ReshapeFails(count, 3 * n * n * n)
                    THEN [error |-> Some("ValueError"), self |-> s1]
                    ELSE [error |-> None,
                          self |-> [s1 EXCEPT !.velocity_data =
                                                  Some(ReshapeVector(VelocityFile(count), n)),
                                              !.use_velocity = Some(TRUE)]]

(* set_payload_offset, lines 88-90 *)
SetOffset(self, offset_in_centimeter) ==
    [self EXCEPT !.payload_offset_z = Some(offset_in_centimeter),
                 !.payload_offset_z_meter = Some(offset_in_centimeter * PosScale)]

(* lines 56-72: the geometry derived from the cube size *)
Geometry(self) ==
    LET n == self.cube_size[1]
        s1 == [self EXCEPT
                 !.offset_from_drone_center =
                     Some(<<0 - (n * PosScale) \div 2, 0 - (n * PosScale) \div 2, 0 - n * PosScale>>),
                 !.cube_size_meter = Some(n * PosScale)]
        s2 == SetOffset(s1, 0)
    IN [s2 EXCEPT !.index_upper_limit = Some(n * PosScale - PosScale \div 2)]

(* The constructor as a whole *)
Constructed(args) ==
    LET p == LoadPressure(args)
    IN IF p.error # None THEN p
       ELSE LET v == LoadVelocity(args, p.self)
            IN IF v.error # None THEN v
               ELSE [error |-> None, self |-> Geometry(v.self)]

VelocityFiles ==
    {None} \cup {Some([rows |-> r, cols |-> c]) : r \in 0 .. MaxCount, c \in {1, 3}}

CtorArgs ==
    {[LOAD_PRESSURE_DICTIONARY |-> FALSE,
      pressure_dictionary_cube_size |-> 0,
      pressure_count |-> pc,
      pressure_variant |-> pv,
      LOAD_VELOCITY_DICTIONARY |-> FALSE,
      velocity_dictionary_cube_size |-> 0,
      data_file_name_velocity |-> vf] :
        pc \in 0 .. MaxCount, pv \in {"uniform", "graded"}, vf \in VelocityFiles}
    \cup
    {[LOAD_PRESSURE_DICTIONARY |-> FALSE,
      pressure_dictionary_cube_size |-> 0,
      pressure_count |-> pc,
      pressure_variant |-> pv,
      LOAD_VELOCITY_DICTIONARY |-> TRUE,
      velocity_dictionary_cube_size |-> vn,
      data_file_name_velocity |-> None] :
        pc \in 0 .. MaxCount, pv \in {"uniform", "graded"}, vn \in 2 .. MaxCubeSize}
    \cup
    {[LOAD_PRESSURE_DICTIONARY |-> TRUE,
      pressure_dictionary_cube_size |-> pn,
      pressure_count |-> 0,
      pressure_variant |-> "uniform",
      LOAD_VELOCITY_DICTIONARY |-> FALSE,
      velocity_dictionary_cube_size |-> 0,
      data_file_name_velocity |-> vf] :
        pn \in 2 .. MaxCubeSize, vf \in VelocityFiles}
    \cup
    {[LOAD_PRESSURE_DICTIONARY |-> TRUE,
      pressure_dictionary_cube_size |-> pn,
      pressure_count |-> 0,
      pressure_variant |-> "uniform",
      LOAD_VELOCITY_DICTIONARY |-> TRUE,
      velocity_dictionary_cube_size |-> vn,
      data_file_name_velocity |-> None] :
        pn \in 2 .. MaxCubeSize, vn \in 2 .. MaxCubeSize}

AirflowSamplerInit ==
    /\ phase = "new"
    /\ \E args \in CtorArgs :
        LET c == Constructed(args)
        IN /\ ctor_args' = args
           /\ IF c.error = None
              THEN /\ phase' = "ready"
                   /\ sampler' = c.self
                   /\ ret' = NoRet
              ELSE /\ phase' = "failed"
                   /\ sampler' = NoSampler
                   /\ ret' = Raised("__init__", c.error[1])
    /\ UNCHANGED <<drone, payload, sim, timer, clock, probe>>

-----------------------------------------------------------------------------
(* The Drone collaborator and the frame transforms of mujoco_helper.  An   *)
(* orientation is a yaw of 0 .. 3 quarter turns about the z axis.          *)

get_estimated_prop_vel(d) == d.prop_vel

(* qv_mult: rotate v by the orientation (active rotation) *)
qv_mult(yaw, v) ==
    CASE yaw = 0 -> v
      [] yaw = 1 -> <<0 - v[2], v[1], v[3]>>
      [] yaw = 2 -> <<0 - v[1], 0 - v[2], v[3]>>
      [] yaw = 3 -> <<v[2], 0 - v[1], v[3]>>

(* quat_vect_array_mult_passive: rotate every vector by the inverse *)
quat_vect_array_mult_passive(yaw, array) ==
    [x \in DOMAIN array |-> qv_mult((4 - yaw) % 4, array[x])]

-----------------------------------------------------------------------------
(* The Payload collaborator: per surface, a batch of patches               *)
(*   pos               world positions                                     *)
(*   pos_in_own_frame  payload-local positions (lever arms)                *)
(*   normal, area      one shared value (ndim = 1) or one per patch        *)

WorldPositions(p, locals) == [x \in DOMAIN locals |-> VecAdd(p.pos, locals[x])]

FlatBatch(p, locals, normal, area) ==
    [pos |-> WorldPositions(p, locals), pos_in_own_frame |-> locals,
     normal |-> normal, area |-> area, ndim |-> 1]

CurvedBatch(p, locals, normals, areas) ==
    [pos |-> WorldPositions(p, locals), pos_in_own_frame |-> locals,
     normal |-> normals, area |-> areas, ndim |-> 2]

(* Two meshes per payload type.  "skew": opposite faces are not mirror      *)
(* images of each other.  "mirrored": every patch has a partner of equal   *)
(* area and opposite normal straight across the body; the box's own frame  *)
(* has its origin one unit off the box's centre along x.  Areas are in     *)
(* hundredths of a square metre.                                           *)
get_top_rectangle_data(p) ==
    IF p.shape = "mirrored"
    THEN FlatBatch(p, <<<<0, 0, 2>>, <<2, 0, 2>>>>, <<0, 0, 1>>, 2)
    ELSE FlatBatch(p, <<<<-1, 0, 2>>, <<1, 0, 2>>>>, <<0, 0, 1>>, 2)
get_bottom_rectangle_data(p) ==
    IF p.shape = "mirrored"
    THEN FlatBatch(p, <<<<0, 0, -2>>, <<2, 0, -2>>>>, <<0, 0, -1>>, 2)
    ELSE FlatBatch(p, <<<<-1, 1, -2>>, <<1, 1, -2>>>>, <<0, 0, -1>>, 2)
get_side_xz_rectangle_data(p) ==
    IF p.shape = "mirrored"
    THEN [n |-> FlatBatch(p, <<<<0, -2, 1>>, <<2, -2, -1>>>>, <<0, -1, 0>>, 1),
          p |-> FlatBatch(p, <<<<0, 2, 1>>, <<2, 2, -1>>>>, <<0, 1, 0>>, 1)]
    ELSE [n |-> FlatBatch(p, <<<<-1, -2, 1>>, <<1, -2, -1>>>>, <<0, -1, 0>>, 1),
          p |-> FlatBatch(p, <<<<-1, 2, 1>>, <<1, 2, -1>>>>, <<0, 1, 0>>, 1)]
get_side_yz_rectangle_data(p) ==
    IF p.shape = "mirrored"
    THEN [n |-> FlatBatch(p, <<<<-1, -1, 1>>, <<-1, 1, -1>>>>, <<-1, 0, 0>>, 1),
          p |-> FlatBatch(p, <<<<3, -1, 1>>, <<3, 1, -1>>>>, <<1, 0, 0>>, 1)]
    ELSE [n |-> FlatBatch(p, <<<<-2, -1, 1>>, <<-2, 1, -1>>>>, <<-1, 0, 0>>, 1),
          p |-> FlatBatch(p, <<<<2, -1, 1>>, <<2, 1, -1>>>>, <<1, 0, 0>>, 1)]
get_top_data(p) ==
    IF p.shape = "mirrored"
    THEN CurvedBatch(p, <<<<0, 0, 0>>, <<1, 0, 1>>>>,
                     <<<<0, 0, 1>>, <<0, 0, 1>>>>, <<1, 2>>)
    ELSE CurvedBatch(p, <<<<-1, 0, 1>>, <<1, 1, 1>>, <<0, -1, 2>>>>,
                     <<<<-1, 0, 1>>, <<1, 0, 1>>, <<0, 0, 1>>>>, <<1, 2, 1>>)
get_bottom_data(p) ==
    IF p.shape = "mirrored"
    THEN CurvedBatch(p, <<<<0, 0, 0>>, <<1, 0, -1>>>>,
                     <<<<0, 0, -1>>, <<0, 0, -1>>>>, <<1, 2>>)
    ELSE CurvedBatch(p, <<<<-1, 1, -1>>, <<1, 0, -2>>>>,
                     <<<<-1, 0, -1>>, <<0, 0, -1>>>>, <<2, 1>>)

-----------------------------------------------------------------------------
(* mujoco_helper's force laws, per patch *)

NormalAt(normal, ndim, x) == IF ndim > 1 THEN normal[x] ELSE normal
AreaAt(area, ndim, x) == IF ndim > 1 THEN area[x] ELSE area

(* force = -pressure * normal * area *)
forces_from_pressures(normal, pressure_values, area, ndim) ==
    [x \in DOMAIN pressure_values |->
        VecScale(0 - (pressure_values[x] * AreaAt(area, ndim, x)), NormalAt(normal, ndim, x))]

(* the term from the normal component of the local velocity and the area *)
forces_from_velocities(normal, velocity_values, area, ndim) ==
    [x \in DOMAIN velocity_values |->
        VecScale(VecDot(velocity_values[x], NormalAt(normal, ndim, x)) * AreaAt(area, ndim, x),
                 NormalAt(normal, ndim, x))]

(* torque = lever arm x force *)
torque_from_force(pos_in_own_frame, forces) ==
    [x \in DOMAIN forces |-> VecCross(pos_in_own_frame[x], forces[x])]

-----------------------------------------------------------------------------
(* BoxDictionary's look-ups *)

(* bounds that do not clamp: outside the stored range the two nearest     *)
(* keys are returned, as for extrapolation                                 *)
get_lower_upper_bounds_unclamped(dict, query) ==
    LET ks == KeySet(dict)
        n == Len(dict.keys)
    IN IF query <= dict.keys[1] THEN <<dict.keys[1], dict.keys[2]>>
       ELSE IF query >= dict.keys[n] THEN <<dict.keys[n - 1], dict.keys[n]>>
       ELSE <<CHOOSE k \in ks : k <= query /\ \A k2 \in ks : k2 <= query => k2 <= k,
              CHOOSE k \in ks : k >= query /\ \A k2 \in ks : k2 >= query => k2 >= k>>

(* (min,min) at or below the smallest key, (max,max) at or above the       *)
(* largest, otherwise the tightest stored keys around the query            *)
get_lower_upper_bounds(dict, query) ==
    LET ks == KeySet(dict)
        lo == dict.keys[1]
        hi == dict.keys[Len(dict.keys)]
    IN IF query <= lo THEN <<lo, lo>>
       ELSE IF query >= hi THEN <<hi, hi>>
       ELSE <<CHOOSE k \in ks : k <= query /\ \A k2 \in ks : k2 <= query => k2 <= k,
              CHOOSE k \in ks : k >= query /\ \A k2 \in ks : k2 >= query => k2 >= k>>

get_lower_upper_bounds_arrays(dict, lower_bound, upper_bound) ==
    <<dict.arrays[lower_bound], dict.arrays[upper_bound]>>

(* a / b for b # 0 dividing a exactly *)
Quotient(a, b) == IF b > 0 THEN a \div b ELSE (0 - a) \div (0 - b)

InterpolateScalar(query, lowerValue, upperValue, lowerKey, upperKey) ==
    IF lowerKey = upperKey THEN lowerValue
    ELSE lowerValue + Quotient((query - lowerKey) * (upperValue - lowerValue), upperKey - lowerKey)

(* interpolate(query, lowerValues, upperValues, lowerKey, upperKey), on    *)
(* the values already read at the patches' cells                           *)
get_interpolated_array(query, lowerValues, upperValues, lowerKey, upperKey) ==
    [x \in DOMAIN lowerValues |->
        InterpolateScalar(query, lowerValues[x], upperValues[x], lowerKey, upperKey)]

get_interpolated_vectors(query, lowerValues, upperValues, lowerKey, upperKey) ==
    [x \in DOMAIN lowerValues |->
        <<InterpolateScalar(query, lowerValues[x][1], upperValues[x][1], lowerKey, upperKey),
          InterpolateScalar(query, lowerValues[x][2], upperValues[x][2], lowerKey, upperKey),
          InterpolateScalar(query, lowerValues[x][3], upperValues[x][3], lowerKey, upperKey)>>]

-----------------------------------------------------------------------------
(* AirflowSampler._gen_forces_one_side *)

(* lines 104-108 *)
get_position_orientation(self, d) ==
    [position |-> VecAdd(qv_mult(d.yaw, self.offset_from_drone_center[1]), d.pos),
     orientation |-> d.yaw]

(* Transform with line 213 active: the payload offset added to every z *)
TransformWithOffset(self, d, pos) ==
    LET po == get_position_orientation(self, d)
    IN [x \in DOMAIN pos |->
           VecAdd(qv_mult((4 - po.orientation) % 4, VecSub(pos[x], po.position)),
                  <<0, 0, self.payload_offset_z_meter[1]>>)]

(* lines 209-213: world positions into the cube's frame; line 213, which  *)
(* would add self._payload_offset_z_meter to z, is commented out           *)
Transform(self, d, pos) ==
    LET po == get_position_orientation(self, d)
    IN quat_vect_array_mult_passive(po.orientation,
                                    [x \in DOMAIN pos |-> VecSub(pos[x], po.position)])

(* Condition with the upper comparison inclusive *)
ConditionInclusive(p, index_upper_limit) ==
    /\ p[1] >= 0 /\ p[1] <= index_upper_limit
    /\ p[2] >= 0 /\ p[2] <= index_upper_limit
    /\ p[3] >= 0 /\ p[3] <= index_upper_limit

(* lines 216-218, for one patch *)
Condition(p, index_upper_limit) ==
    /\ p[1] >= 0 /\ p[1] < index_upper_limit
    /\ p[2] >= 0 /\ p[2] < index_upper_limit
    /\ p[3] >= 0 /\ p[3] < index_upper_limit

(* np.rint(x * 100).astype(np.int32) of one coordinate: x is in            *)
(* 1/PosScale centimetres, the result in centimetres, ties to even         *)
Rint(x) ==
    LET fl == x \div PosScale
        r == x % PosScale
    IN IF 2 * r < PosScale THEN fl
       ELSE IF 2 * r > PosScale THEN fl + 1
       ELSE IF fl % 2 = 0 THEN fl ELSE fl + 1

(* line 227 *)
Indices(pos_traffed) ==
    [x \in DOMAIN pos_traffed |->
        <<Rint(pos_traffed[x][1]), Rint(pos_traffed[x][2]), Rint(pos_traffed[x][3])>>]

(* indexing that reads the next cell along the last axis *)
ReadAtNeighbour(array, indices, n) ==
    [x \in DOMAIN indices |->
        array[<<indices[x][1] % n, indices[x][2] % n, (indices[x][3] + 1) % n>>]]

(* numpy indexing of an (n,n,n,...) array: -n .. -1 wrap around, anything  *)
(* else outside 0 .. n-1 raises IndexError                                 *)
IndexOk(indices, n) ==
    \A x \in DOMAIN indices : \A a \in 1 .. 3 : indices[x][a] >= 0 - n /\ indices[x][a] <= n - 1

Wrap(i, n) == IF i < 0 THEN i + n ELSE i

ReadAt(array, indices, n) ==
    [x \in DOMAIN indices |->
        array[<<Wrap(indices[x][1], n), Wrap(indices[x][2], n), Wrap(indices[x][3], n)>>]]

(* line 236 with only the two keys exchanged *)
PressureInterpolationKeysExchanged(q, lower_values, upper_values, lower_bound, upper_bound) ==
    get_interpolated_array(q, lower_values, upper_values, upper_bound, lower_bound)

(* line 236: the call hands over the upper values and the upper key first *)
PressureInterpolation(q, lower_values, upper_values, lower_bound, upper_bound) ==
    get_interpolated_array(q, upper_values, lower_values, upper_bound, lower_bound)

(* line 250: the same call for the velocity vectors *)
VelocityInterpolation(q, lower_values, upper_values, lower_bound, upper_bound) ==
    get_interpolated_vectors(q, upper_values, lower_values, upper_bound, lower_bound)

(* lines 229-239: the pressure at every kept patch *)
SamplePressure(self, indices, abs_average_velocity) ==
    LET n == self.cube_size[1]
    IN IF self.USE_PRESSURE_DICTIONARY[1]
       THEN IF abs_average_velocity = None
            THEN [error |-> Some("TypeError"), values |-> <<>>, bounds |-> None]
            ELSE LET dict == self.loaded_pressures[1]
                     q == abs_average_velocity[1]
                     b == get_lower_upper_bounds(dict, q)
                     a == get_lower_upper_bounds_arrays(dict, b[1], b[2])
                 IN IF ~IndexOk(indices, n)
                    THEN [error |-> Some("IndexError"), values |-> <<>>, bounds |-> Some(b)]
                    ELSE LET lower_pressure_values == ReadAt(a[1], indices, n)
                             upper_pressure_values == ReadAt(a[2], indices, n)
                         IN [error |-> None,
                             values |-> PressureInterpolation(q, lower_pressure_values,
                                            upper_pressure_values, b[1], b[2]),
                             bounds |-> Some(b)]
       ELSE IF ~IndexOk(indices, n)
            THEN [error |-> Some("IndexError"), values |-> <<>>, bounds |-> None]
            ELSE [error |-> None, values |-> ReadAt(self.pressure_data[1], indices, n),
                  bounds |-> None]

(* lines 243-253 with the single-grid flag tested before the dictionary   *)
(* flag: self.use_velocity is read in every configuration                  *)
SampleVelocityFlagFirst(self, indices, abs_average_velocity) ==
    LET n == self.cube_size[1]
        nothing == [error |-> None, used |-> FALSE, values |-> <<>>, bounds |-> None,
                    query |-> None]
    IN IF self.use_velocity = None
       THEN [nothing EXCEPT !.error = Some("AttributeError")]
       ELSE IF self.USE_VELOCITY_DICTIONARY[1]
       THEN IF abs_average_velocity = None
            THEN [nothing EXCEPT !.error = Some("TypeError"), !.used = TRUE]
            ELSE LET dict == self.loaded_velocities[1]
                     q == abs_average_velocity[1]
                     b == get_lower_upper_bounds(dict, q)
                     a == get_lower_upper_bounds_arrays(dict, b[1], b[2])
                 IN IF ~IndexOk(indices, n)
                    THEN [nothing EXCEPT !.error = Some("IndexError"), !.used = TRUE,
                                         !.bounds = Some(b), !.query = Some(q)]
                    ELSE LET lower_velocity_values == ReadAt(a[1], indices, n)
                             upper_velocity_values == ReadAt(a[2], indices, n)
                         IN [error |-> None, used |-> TRUE,
                             values |-> VelocityInterpolation(q, lower_velocity_values,
                                            upper_velocity_values, b[1], b[2]),
                             bounds |-> Some(b), query |-> Some(q)]
       ELSE IF self.use_velocity = None
            THEN [nothing EXCEPT !.error = Some("AttributeError")]
       ELSE IF self.use_velocity[1]
            THEN IF ~IndexOk(indices, n)
                 THEN [nothing EXCEPT !.error = Some("IndexError"), !.used = TRUE]
                 ELSE [nothing EXCEPT !.used = TRUE,
                                      !.values = ReadAt(self.velocity_data[1], indices, n)]
       ELSE nothing

(* lines 243-253: the velocity at every kept patch; used is whether line   *)
(* 255 adds the velocity term                                              *)
SampleVelocity(self, indices, abs_average_velocity) ==
    LET n == self.cube_size[1]
        nothing == [error |-> None, used |-> FALSE, values |-> <<>>, bounds |-> None,
                    query |-> None]
    IN IF self.USE_VELOCITY_DICTIONARY[1]
       THEN IF abs_average_velocity = None
            THEN [nothing EXCEPT !.error = Some("TypeError"), !.used = TRUE]
            ELSE LET dict == self.loaded_velocities[1]
                     q == abs_average_velocity[1]
                     b == get_lower_upper_bounds(dict, q)
                     a == get_lower_upper_bounds_arrays(dict, b[1], b[2])
                 IN IF ~IndexOk(indices, n)
                    THEN [nothing EXCEPT !.error = Some("IndexError"), !.used = TRUE,
                                         !.bounds = Some(b), !.query = Some(q)]
                    ELSE LET lower_velocity_values == ReadAt(a[1], indices, n)
                             upper_velocity_values == ReadAt(a[2], indices, n)
                         IN [error |-> None, used |-> TRUE,
                             values |-> VelocityInterpolation(q, lower_velocity_values,
                                            upper_velocity_values, b[1], b[2]),
                             bounds |-> Some(b), query |-> Some(q)]
       ELSE IF self.use_velocity = None
            THEN [nothing EXCEPT !.error = Some("AttributeError")]
       ELSE IF self.use_velocity[1]
            THEN IF ~IndexOk(indices, n)
                 THEN [nothing EXCEPT !.error = Some("IndexError"), !.used = TRUE]
                 ELSE [nothing EXCEPT !.used = TRUE,
                                      !.values = ReadAt(self.velocity_data[1], indices, n)]
       ELSE nothing

(* lines 220-225: the batch's lever arms, normals and areas of the kept   *)
(* patches                                                                 *)
Kept(batch, condition) ==
    [pos_in_own_frame |-> MaskSelect(batch.pos_in_own_frame, condition),
     normal |-> IF batch.ndim > 1 THEN MaskSelect(batch.normal, condition) ELSE batch.normal,
     area |-> IF batch.ndim > 1 THEN MaskSelect(batch.area, condition) ELSE batch.area,
     ndim |-> batch.ndim]

(* lines 241-257: the kept patches' forces *)
PatchForces(kept, p, v) ==
    IF v.used
    THEN [x \in DOMAIN p.values |->
             VecAdd(forces_from_pressures(kept.normal, p.values, kept.area, kept.ndim)[x],
                    forces_from_velocities(kept.normal, v.values, kept.area, kept.ndim)[x])]
    ELSE forces_from_pressures(kept.normal, p.values, kept.area, kept.ndim)

(* lines 208-267 for one batch.  The record holds what the call returns    *)
(* (force, torque) or raises (status) and the intermediate arrays.         *)
GenForcesOneSide(self, d, batch, abs_average_velocity) ==
    With(Transform(self, d, batch.pos), LAMBDA traffed :
    With([x \in DOMAIN traffed |-> Condition(traffed[x], self.index_upper_limit[1])],
         LAMBDA condition :
    With(Kept(batch, condition), LAMBDA kept :
    With(Indices(MaskSelect(traffed, condition)), LAMBDA indices :
    With(SamplePressure(self, indices, abs_average_velocity), LAMBDA p :
    With(IF p.error = None
         THEN SampleVelocity(self, indices, abs_average_velocity)
         ELSE [error |-> None, used |-> FALSE, values |-> <<>>, bounds |-> None, query |-> None],
         LAMBDA v :
    With(IF p.error = None /\ v.error = None THEN PatchForces(kept, p, v) ELSE <<>>,
         LAMBDA forces :
    With(torque_from_force(kept.pos_in_own_frame, forces), LAMBDA torques :
        [status |-> IF p.error # None THEN p.error[1]
                    ELSE IF v.error # None THEN v.error[1] ELSE "ok",
         force |-> VecSum(forces),
         torque |-> VecSum(torques),
         traffed |-> traffed,
         condition |-> condition,
         indices |-> indices,
         pressure_bounds |-> p.bounds,
         pressure_values |-> p.values,
         velocity_used |-> v.used,
         velocity_query |-> v.query,
         velocity_bounds |-> v.bounds,
         velocity_values |-> v.values,
         forces |-> forces,
         torques |-> torques]))))))))

-----------------------------------------------------------------------------
(* AirflowSampler.generate_forces_opt *)

(* line 163: np.sum(np.abs(prop_velocities)) / 4, in speed-key units *)
AbsAverageVelocity(prop_velocities) == (SumAbs(prop_velocities) * SpeedScale) \div 4

(* lines 160-163 *)
RepresentativeSpeed(self, d) ==
    IF self.USE_PRESSURE_DICTIONARY[1]
    THEN Some(AbsAverageVelocity(get_estimated_prop_vel(d)))
    ELSE None

Surface(name, batch, add_torque) == [name |-> name, batch |-> batch, add_torque |-> add_torque]

(* BoxSurfaces with a copy-paste slip at line 180: the negative xz side's *)
(* batch is passed again for the positive side                             *)
BoxSurfacesSideTwice(p) ==
    <<Surface("top", get_top_rectangle_data(p), TRUE),
      Surface("bottom", get_bottom_rectangle_data(p), FALSE),
      Surface("side_xz_n", get_side_xz_rectangle_data(p).n, TRUE),
      Surface("side_xz_p", get_side_xz_rectangle_data(p).n, TRUE),
      Surface("side_yz_n", get_side_yz_rectangle_data(p).n, TRUE),
      Surface("side_yz_p", get_side_yz_rectangle_data(p).p, TRUE)>>

(* BoxSurfaces with line 174 active: the bottom's torque is added too *)
BoxSurfacesBottomTorque(p) ==
    <<Surface("top", get_top_rectangle_data(p), TRUE),
      Surface("bottom", get_bottom_rectangle_data(p), TRUE),
      Surface("side_xz_n", get_side_xz_rectangle_data(p).n, TRUE),
      Surface("side_xz_p", get_side_xz_rectangle_data(p).p, TRUE),
      Surface("side_yz_n", get_side_yz_rectangle_data(p).n, TRUE),
      Surface("side_yz_p", get_side_yz_rectangle_data(p).p, TRUE)>>

(* lines 165-190: the box's surfaces in call order; the bottom's torque is *)
(* not added (line 174)                                                    *)
BoxSurfaces(p) ==
    <<Surface("top", get_top_rectangle_data(p), TRUE),
      Surface("bottom", get_bottom_rectangle_data(p), FALSE),
      Surface("side_xz_n", get_side_xz_rectangle_data(p).n, TRUE),
      Surface("side_xz_p", get_side_xz_rectangle_data(p).p, TRUE),
      Surface("side_yz_n", get_side_yz_rectangle_data(p).n, TRUE),
      Surface("side_yz_p", get_side_yz_rectangle_data(p).p, TRUE)>>

(* lines 192-201 *)
TeardropSurfaces(p) ==
    <<Surface("top", get_top_data(p), TRUE),
      Surface("bottom", get_bottom_data(p), TRUE)>>

(* SurfacesOf with the final else branch lost: whatever is not a box is   *)
(* sampled as a teardrop                                                   *)
SurfacesOfNoElse(p) ==
    IF p.kind = "box" THEN Some(BoxSurfaces(p)) ELSE Some(TeardropSurfaces(p))

(* lines 165, 192, 203: the isinstance dispatch; None is the else branch *)
SurfacesOf(p) ==
    IF p.kind = "box" THEN Some(BoxSurfaces(p))
    ELSE IF p.kind = "teardrop" THEN Some(TeardropSurfaces(p))
    ELSE None

(* force_sum += force, after every surface *)
ForceSum(rs) == VecSum([k \in DOMAIN rs |-> rs[k].force])

(* torque_sum += torque after every surface, the box's bottom included *)
TorqueSumEverySurface(rs, surfaces) == VecSum([k \in DOMAIN rs |-> rs[k].torque])

(* torque_sum += torque, after the surfaces whose torque is added *)
TorqueSum(rs, surfaces) ==
    VecSum([k \in DOMAIN rs |-> IF surfaces[k].add_torque THEN rs[k].torque ELSE Zero3])

(* the surfaces' calls in order; an exception ends the call at the first   *)
(* surface that raises                                                     *)
Outcome(surfaces, rs, abs_average_velocity) ==
    LET bad == {k \in DOMAIN rs : rs[k].status # "ok"}
        first == CHOOSE k \in bad : \A k2 \in bad : k <= k2
    IN IF bad = {}
       THEN [op |-> "generate_forces_opt", status |-> "ok",
             force |-> Some(ForceSum(rs)),
             torque |-> Some(TorqueSum(rs, surfaces)),
             abs_average_velocity |-> abs_average_velocity,
             sides |-> rs]
       ELSE [Raised("generate_forces_opt", rs[first].status)
                EXCEPT !.abs_average_velocity = abs_average_velocity,
                       !.sides = SubSeq(rs, 1, first)]

GenerateForces(self, d, p) ==
    With(RepresentativeSpeed(self, d), LAMBDA abs_average_velocity :
    With(SurfacesOf(p), LAMBDA dispatch :
        IF dispatch = None
        THEN [Raised("generate_forces_opt", "RuntimeError")
                 EXCEPT !.abs_average_velocity = abs_average_velocity]
        ELSE With([k \in DOMAIN dispatch[1] |->
                      GenForcesOneSide(self, d, dispatch[1][k].batch, abs_average_velocity)
                          @@ [name |-> dispatch[1][k].name]],
                  LAMBDA rs : Outcome(dispatch[1], rs, abs_average_velocity))))

(* generate_forces_opt that first puts the payload offset back to 0 *)
generate_forces_opt_resetting_offset ==
    /\ phase = "ready"
    /\ sampler' = SetOffset(sampler, 0)
    /\ ret' = GenerateForces(sampler', drone, payload)
    /\ UNCHANGED <<phase, ctor_args, drone, payload, sim, timer, clock, probe>>

generate_forces_opt ==
    /\ phase = "ready"
    /\ ret' = GenerateForces(sampler, drone, payload)
    /\ UNCHANGED <<phase, ctor_args, sampler, drone, payload, sim, timer, clock, probe>>

set_payload_offset ==
    /\ phase = "ready"
    /\ \E offset_in_centimeter \in 0 .. MaxOffset :
          sampler' = SetOffset(sampler, offset_in_centimeter)
    /\ ret' = NoRet
    /\ UNCHANGED <<phase, ctor_args, drone, payload, sim, timer, clock, probe>>

-----------------------------------------------------------------------------
(* Simulator (simulator.py).  Every method runs to its end in one step.    *)
(* Frequencies are whole hertz; the scene's timestep is 1/Rate seconds.    *)

MaxTicks == 3            \* tick is called while tick_count < MaxTicks
MaxFrames == 1           \* a process is called directly while frames < MaxFrames
MaxUserProcesses == 1    \* add_process registers at most this many processes of the user's

Rate == 4                \* 1 / self.timestep, in hertz

NoSimulator ==
    [rate |-> 0, tick_count |-> 0, processes |-> <<>>, viewer |-> None,
     frames |-> 0,
     last |-> [op |-> "none", name |-> "", invoked |-> <<>>, warnings |-> 0,
               status |-> "ok", result |-> None]]

(* what an operation reports: the functions it invoked, in order, the      *)
(* warnings it printed, the exception it raised, the value it returned     *)
Did(op, name) ==
    [op |-> op, name |-> name, invoked |-> <<>>, warnings |-> 0, status |-> "ok",
     result |-> None]

(* Simulator.Process, lines 54-57 *)
Process(func, frequency) == [func |-> func, frequency |-> frequency, paused |-> FALSE]

(* Process.toggle that tells whether the process is paused after the call *)
ProcessToggleReturningPaused(process) ==
    [self |-> [process EXCEPT !.paused = ~process.paused], result |-> ~process.paused]

(* Process.pause, lines 59-64 *)
ProcessPause(process) == [process EXCEPT !.paused = TRUE]

(* Process.resume, lines 66-71 *)
ProcessResume(process) == [process EXCEPT !.paused = FALSE]

(* Process.toggle, lines 73-81: the process after the call and the value   *)
(* returned                                                                *)
ProcessToggle(process) ==
    [self |-> [process EXCEPT !.paused = ~process.paused], result |-> process.paused]

Names(processes) == {processes[i].name : i \in DOMAIN processes}
IndexOf(processes, name) == CHOOSE i \in DOMAIN processes : processes[i].name = name
Named(self, name) == self.processes[IndexOf(self.processes, name)].process

(* self.processes[name] = process, for a name already in the dictionary *)
Store(self, name, process) ==
    [self EXCEPT !.processes[IndexOf(self.processes, name)].process = process]

(* add_process that replaces a process already registered under the name *)
AddProcessOverwriting(self, name, func, frequency) ==
    IF name \in Names(self.processes)
    THEN [Store(self, name, Process(func, frequency)) EXCEPT !.last = Did("add_process", name)]
    ELSE [self EXCEPT !.processes = Append(@, [name |-> name,
                                               process |-> Process(func, frequency)]),
                      !.last = Did("add_process", name)]

(* add_process, lines 205-208; a dictionary keeps its keys in the order    *)
(* they were inserted                                                      *)
AddProcess(self, name, func, frequency) ==
    IF name \in Names(self.processes)
    THEN [self EXCEPT !.last = [Did("add_process", name) EXCEPT !.warnings = 1]]
    ELSE [self EXCEPT !.processes = Append(@, [name |-> name,
                                               process |-> Process(func, frequency)]),
                      !.last = Did("add_process", name)]

(* Simulator.__init__, lines 92-109 *)
NewSimulator(rate, update_freq, target_fps) ==
    LET s0 == [NoSimulator EXCEPT !.rate = rate]
        s1 == AddProcess(s0, "update", "update_objects", update_freq)
        s2 == AddProcess(s1, "sync", "sync", target_fps)
        s3 == AddProcess(s2, "physics", "mj_step", rate)
        s4 == AddProcess(s3, "render", "render_viewer_data", target_fps)
        s5 == Store(s4, "render", ProcessPause(Named(s4, "render")))
    IN [s5 EXCEPT !.last = Did("__init__", "")]

(* math.ceil(a / b) for positive a and b *)
Ceil(a, b) == (a + b - 1) \div b

Max(a, b) == IF a >= b THEN a ELSE b

(* line 218: max(1, math.ceil((1 / process.frequency) / self.timestep)) *)
Interval(frequency, rate) == Max(1, Ceil(rate, frequency))

(* the process functions: sync (line 250) needs the viewer, the others     *)
(* return whatever the state is                                            *)
FuncRaises(self, func) == func = "sync" /\ self.viewer = None

(* render_viewer_data (lines 295-296) saves a frame when there is a viewer;*)
(* what the other functions do is outside the simulator's own state        *)
FuncEffect(self, func) ==
    [self EXCEPT !.frames = IF func = "render_viewer_data" /\ self.viewer # None
                            THEN @ + 1 ELSE @]

(* Process.__call__ that runs the function whatever the paused flag says *)
CallIgnoringPause(self, i) ==
    LET p == self.processes[i].process
        s1 == [self EXCEPT !.last.invoked = Append(@, p.func)]
    IN IF FuncRaises(s1, p.func)
       THEN [s1 EXCEPT !.last.status = "AttributeError"]
       ELSE FuncEffect(s1, p.func)

(* Process.__call__, lines 83-90, of the i-th registered process *)
Call(self, i) ==
    LET p == self.processes[i].process
        s1 == [self EXCEPT !.last.invoked = Append(@, p.func)]
    IN IF ~p.paused
       THEN IF FuncRaises(s1, p.func)
            THEN [s1 EXCEPT !.last.status = "AttributeError"]
            ELSE FuncEffect(s1, p.func)
       ELSE [self EXCEPT !.last.warnings = @ + 1]

(* tick, lines 217-230, from the i-th registered process on: an exception  *)
(* of a process function leaves the loop and the method; the sleep of      *)
(* lines 227-229 changes nothing of the state                              *)
RECURSIVE TickFrom(_, _)
TickFrom(self, i) ==
    IF i > Len(self.processes)
    THEN [self EXCEPT !.tick_count = @ + 1]
    ELSE LET p == self.processes[i].process
             interval == Interval(p.frequency, self.rate)
         IN IF ~p.paused /\ self.tick_count % interval = 0
            THEN LET s1 == Call(self, i)
                 IN IF s1.last.status # "ok" THEN s1 ELSE TickFrom(s1, i + 1)
            ELSE TickFrom(self, i + 1)

(* tick, lines 210-230 *)
Tick(self) == TickFrom([self EXCEPT !.last = Did("tick", "")], 1)

(* self.processes[name].toggle() *)
ToggleNamed(self, name) == Store(self, name, ProcessToggle(Named(self, name)).self)

(* pause_physics that leaves the update process alone *)
PausePhysicsOnly(self) == ToggleNamed(self, "physics")

(* pause_physics, lines 147-153 *)
PausePhysics(self) == ToggleNamed(ToggleNamed(self, "physics"), "update")

(* toggle_render, lines 284-289: what it prints is kept as the result *)
ToggleRender(self) ==
    LET t == ProcessToggle(Named(self, "render"))
    IN [Store(self, "render", t.self) EXCEPT !.last.result = Some(t.result)]

(* callback_dictionary, lines 99-103, looked up by handle_keypress,        *)
(* lines 275-282                                                           *)
HandleKeypress(self, keycode, shift_pressed) ==
    IF keycode = "SPACE" /\ ~shift_pressed THEN PausePhysics(self)
    ELSE IF keycode = "R" /\ shift_pressed THEN ToggleRender(self)
    ELSE self

(* the finally block of launch_viewer that closes the viewer and keeps the *)
(* handle                                                                  *)
LeaveViewerKeepingHandle(self) ==
    [self EXCEPT !.last.invoked = @ \o <<"write">>
                                    \o (IF self.viewer # None THEN <<"close">> ELSE <<>>)]

(* launch_viewer, lines 176-179: the finally block *)
LeaveViewer(self) ==
    [self EXCEPT !.last.invoked = @ \o <<"write">>
                                    \o (IF self.viewer # None THEN <<"close">> ELSE <<>>),
                 !.viewer = None]

(* launch_viewer, lines 169-175, up to the yield: launch_passive returns   *)
(* the viewer or raises, and then the finally block runs at once           *)
LaunchViewer(self, raised) ==
    LET s1 == [self EXCEPT !.last = [Did("launch_viewer", "") EXCEPT
                                       !.invoked = <<"bind_scene", "launch_passive">>]]
    IN IF raised
       THEN LeaveViewer([s1 EXCEPT !.last.status = "RuntimeError"])
       ELSE [s1 EXCEPT !.viewer = Some("viewer")]

(* the with-block is left, by its end or by an exception of its body *)
CloseViewer(self, raised) ==
    LeaveViewer([self EXCEPT !.last = [Did("close_viewer", "") EXCEPT
                                         !.status = IF raised THEN "Exception" ELSE "ok"]])

-----------------------------------------------------------------------------
(* PausableTime (utils/utils_general.py).  time.time() is the variable     *)
(* clock, in whole quanta; now is its value when the method runs.          *)

MaxClock == 5            \* the clock advances while clock < MaxClock
MaxAdvance == 2          \* the longest the clock advances between two calls

(* PausableTime.__init__, lines 67-70 *)
PausableTime(now) == [last_started |-> now, sum_time |-> 0, ticking |-> TRUE]

(* PausableTime.resume that keeps the old starting time *)
TimeResumeKeepingStart(self, now) ==
    IF ~self.ticking THEN [self EXCEPT !.ticking = TRUE] ELSE self

(* PausableTime.pause, lines 72-78 *)
TimePause(self, now) ==
    IF self.ticking
    THEN [self EXCEPT !.sum_time = @ + (now - self.last_started), !.ticking = FALSE]
    ELSE self

(* PausableTime.resume, lines 80-86 *)
TimeResume(self, now) ==
    IF ~self.ticking THEN [self EXCEPT !.last_started = now, !.ticking = TRUE] ELSE self

(* PausableTime.__call__, lines 88-98 *)
TimeRead(self, now) ==
    IF self.ticking THEN self.sum_time + (now - self.last_started) ELSE self.sum_time

(* PausableTime.reset, lines 100-109 *)
TimeReset(self, now) == [last_started |-> now, sum_time |-> 0, ticking |-> TRUE]

(* the timer, the clock time it has been ticking for since its             *)
(* construction or last reset (ran), the value last read (shown) and the   *)
(* method last called (op)                                                 *)
NoTimer ==
    [self |-> [last_started |-> 0, sum_time |-> 0, ticking |-> FALSE],
     ran |-> 0, shown |-> None, op |-> "none"]

-----------------------------------------------------------------------------
(* Double precision.  The coordinates of line 216 and index_upper_limit of *)
(* line 72 are numpy float64 values.  A natural number is a sequence of    *)
(* bits, least significant first; a positive double is m * 2^e with m of   *)
(* Precision bits, the highest of them 1; every operation rounds to the    *)
(* nearest double, ties to the even mantissa.                              *)

Precision == 53          \* bits of a float64 mantissa

MaxRoundCube == 12       \* cube sizes 1 .. MaxRoundCube
MaxBelow == 2            \* coordinates up to MaxBelow doubles under a centimetre mark

Zeros(w) == [i \in 1 .. w |-> 0]
Ones(w) == [i \in 1 .. w |-> 1]

RECURSIVE NatOf(_)
NatOf(bits) == IF bits = <<>> THEN 0 ELSE bits[1] + 2 * NatOf(Tail(bits))

(* the bits of a + b, a and b of the same length *)
RECURSIVE AddFrom(_, _, _, _)
AddFrom(a, b, i, carry) ==
    IF i > Len(a) THEN <<carry>>
    ELSE <<(a[i] + b[i] + carry) % 2>> \o AddFrom(a, b, i + 1, (a[i] + b[i] + carry) \div 2)

AddBits(a, b) == AddFrom(a, b, 1, 0)

(* bits + 1: one bit longer when every bit was 1 *)
Incr(bits) ==
    IF \A i \in DOMAIN bits : bits[i] = 1 THEN Zeros(Len(bits)) \o <<1>>
    ELSE LET z == CHOOSE i \in DOMAIN bits : bits[i] = 0 /\ \A j \in 1 .. i - 1 : bits[j] = 1
         IN [i \in DOMAIN bits |-> IF i < z THEN 0 ELSE IF i = z THEN 1 ELSE bits[i]]

(* bits - 1, for bits that are not all 0 *)
Decr(bits) ==
    LET z == CHOOSE i \in DOMAIN bits : bits[i] = 1 /\ \A j \in 1 .. i - 1 : bits[j] = 0
    IN [i \in DOMAIN bits |-> IF i < z THEN 1 ELSE IF i = z THEN 0 ELSE bits[i]]

BitsLess(a, b) ==
    \E i \in DOMAIN a : a[i] < b[i] /\ \A j \in DOMAIN a : j > i => a[j] = b[j]

Zero64 == [m |-> Zeros(Precision), e |-> 0]

(* the double nearest to bits * 2^e, bits not all 0, ties to even *)
RoundBits(bits, e) ==
    LET top == CHOOSE i \in DOMAIN bits : bits[i] = 1 /\ \A j \in DOMAIN bits : j > i => bits[j] = 0
        sh == top - Precision
    IN IF sh <= 0
       THEN [m |-> Zeros(0 - sh) \o SubSeq(bits, 1, top), e |-> e + sh]
       ELSE LET q == SubSeq(bits, sh + 1, top)
                up == bits[sh] = 1 /\ (q[1] = 1 \/ \E j \in 1 .. sh - 1 : bits[j] = 1)
                r == IF up THEN Incr(q) ELSE q
            IN IF Len(r) > Precision
               THEN [m |-> SubSeq(r, 2, Len(r)), e |-> e + sh + 1]
               ELSE [m |-> r, e |-> e + sh]

(* the first n binary places of rem / den, rem < den, and under them one   *)
(* bit that tells whether anything is left                                 *)
RECURSIVE DivFrom(_, _, _)
DivFrom(rem, den, n) ==
    IF n = 0 THEN <<IF rem # 0 THEN 1 ELSE 0>>
    ELSE IF 2 * rem >= den
         THEN DivFrom(2 * rem - den, den, n - 1) \o <<1>>
         ELSE DivFrom(2 * rem, den, n - 1) \o <<0>>

(* num / den in float64, for 0 < num < den < 2^8 *)
Divide(num, den) == RoundBits(DivFrom(num, den, 64), 0 - 65)

(* x * 100 in float64: 100 = 64 + 32 + 4 *)
Times100(x) ==
    IF x = Zero64 THEN Zero64
    ELSE LET a == Zeros(6) \o x.m
             b == Zeros(5) \o x.m \o <<0>>
             c == Zeros(2) \o x.m \o Zeros(4)
         IN RoundBits(AddBits(AddBits(a, b), c \o <<0>>), x.e)

(* x < y for doubles that are not negative *)
Less(x, y) ==
    IF y = Zero64 THEN FALSE
    ELSE IF x = Zero64 THEN TRUE
    ELSE x.e < y.e \/ (x.e = y.e /\ BitsLess(x.m, y.m))

(* the next double towards 0 of a positive double *)
Pred(x) ==
    IF x.m = Zeros(Precision - 1) \o <<1>>
    THEN [m |-> Ones(Precision), e |-> x.e - 1]
    ELSE [m |-> Decr(x.m), e |-> x.e]

RECURSIVE Below(_, _)
Below(x, j) == IF j = 0 THEN x ELSE Below(Pred(x), j - 1)

(* np.rint(v).astype(np.int32), line 227, of a double 0 <= v < 2^30:       *)
(* the nearest integer, ties to even                                       *)
RintDouble(v) ==
    IF v = Zero64 \/ 0 - v.e > Precision THEN 0
    ELSE LET t == 0 - v.e
             ip == NatOf(SubSeq(v.m, t + 1, Precision))
             up == v.m[t] = 1 /\ (ip % 2 = 1 \/ \E j \in 1 .. t - 1 : v.m[j] = 1)
         IN IF up THEN ip + 1 ELSE ip

(* line 72: (float(self._cube_size) - 0.5) / 100. *)
IndexUpperLimit(n) == Divide(2 * n - 1, 200)

NoProbe ==
    [n |-> 0, index_upper_limit |-> Zero64, pos_traffed |-> Zero64, condition |-> FALSE,
     index |-> None, error |-> None, op |-> "none"]

(* lines 216-239 for one coordinate x of a patch, the cube of size n *)
GenIndex(self, x) ==
    LET condition == ~Less(x, Zero64) /\ Less(x, self.index_upper_limit)
        index == RintDouble(Times100(x))
    IN [self EXCEPT !.pos_traffed = x,
                    !.condition = condition,
                    !.index = IF condition THEN Some(index) ELSE None,
                    !.error = IF condition /\ ~IndexOk(<<<<index, index, index>>>>, self.n)
                              THEN Some("IndexError") ELSE None,
                    !.op = "_gen_forces_one_side"]

-----------------------------------------------------------------------------
(* The collaborators' own steps *)

DronePoses ==
    {[pos |-> <<0, 0, 0>>, yaw |-> 0], [pos |-> <<1, 0, 2>>, yaw |-> 1],
     [pos |-> <<0, 0, 0>>, yaw |-> 2], [pos |-> <<1, 0, 2>>, yaw |-> 3]}
PropVelocities ==
    {<<1, -1, 1, -1>>, <<2, -2, 2, -2>>, <<3, -3, 3, -2>>,
     <<4, -4, 4, -4>>, <<5, -5, 5, -6>>, <<7, -7, 7, -7>>}

PayloadKinds == {"box", "teardrop", "other"}
PayloadPositions == {<<0, 0, -5>>, <<1, -1, -3>>}
PayloadShapes == {"skew", "mirrored"}

(* the drone flies on: its pose sensors and rotor speed estimates change *)
DroneStep ==
    /\ phase = "ready"
    /\ \E pose \in DronePoses, pv \in PropVelocities :
          drone' = [pos |-> pose.pos, yaw |-> pose.yaw, prop_vel |-> pv]
    /\ drone' # drone
    /\ ret' = NoRet
    /\ UNCHANGED <<phase, ctor_args, sampler, payload, sim, timer, clock, probe>>

(* another payload, or the same one elsewhere, is handed to the sampler *)
PayloadStep ==
    /\ phase = "ready"
    /\ payload' \in [kind : PayloadKinds, pos : PayloadPositions, shape : PayloadShapes]
    /\ payload' # payload
    /\ ret' = NoRet
    /\ UNCHANGED <<phase, ctor_args, sampler, drone, sim, timer, clock, probe>>

Init ==
    /\ phase = "new"
    /\ ctor_args = NoArgs
    /\ sampler = NoSampler
    /\ drone = [pos |-> <<0, 0, 0>>, yaw |-> 0, prop_vel |-> <<1, -1, 1, -1>>]
    /\ payload = [kind |-> "box", pos |-> <<0, 0, -5>>, shape |-> "skew"]
    /\ ret = NoRet
    /\ sim = NoSimulator
    /\ timer = NoTimer
    /\ clock = 0
    /\ probe = NoProbe

Next ==
    \/ AirflowSamplerInit
    \/ generate_forces_opt
    \/ set_payload_offset
    \/ DroneStep
    \/ PayloadStep

Spec == Init /\ [][Next]_vars

-----------------------------------------------------------------------------
(* Samplers built from one pressure file and no velocity source, among     *)
(* them the 21 x 21 x 21 cube of uniform pressure 100; the behaviours      *)
(* start when the constructor has returned.                                *)

PressureFileOnly(count, variant) ==
    [LOAD_PRESSURE_DICTIONARY |-> FALSE,
     pressure_dictionary_cube_size |-> 0,
     pressure_count |-> count,
     pressure_variant |-> variant,
     LOAD_VELOCITY_DICTIONARY |-> FALSE,
     velocity_dictionary_cube_size |-> 0,
     data_file_name_velocity |-> None]

PressureDictionaryOnly(n) ==
    [LOAD_PRESSURE_DICTIONARY |-> TRUE,
     pressure_dictionary_cube_size |-> n,
     pressure_count |-> 0,
     pressure_variant |-> "uniform",
     LOAD_VELOCITY_DICTIONARY |-> FALSE,
     velocity_dictionary_cube_size |-> 0,
     data_file_name_velocity |-> None]

PressureOnlyArgs ==
    {PressureFileOnly(21 * 21 * 21, "uniform")}
    \cup {PressureFileOnly(n * n * n, pv) : n \in 2 .. MaxCubeSize, pv \in {"uniform", "graded"}}
    \cup {PressureDictionaryOnly(n) : n \in 2 .. MaxCubeSize}

PressureOnlyInit ==
    /\ phase = "ready"
    /\ ctor_args \in PressureOnlyArgs
    /\ sampler = Constructed(ctor_args).self
    /\ drone = [pos |-> <<0, 0, 0>>, yaw |-> 0, prop_vel |-> <<1, -1, 1, -1>>]
    /\ payload = [kind |-> "box", pos |-> <<0, 0, -5>>, shape |-> "skew"]
    /\ ret = NoRet
    /\ sim = NoSimulator
    /\ timer = NoTimer
    /\ clock = 0
    /\ probe = NoProbe

PressureOnlyNext ==
    \/ generate_forces_opt
    \/ set_payload_offset
    \/ DroneStep
    \/ PayloadStep

PressureOnlySpec == PressureOnlyInit /\ [][PressureOnlyNext]_vars

-----------------------------------------------------------------------------
(* The simulator on its own: the sampler is not constructed *)

Constructions == {<<8, 1>>, <<2, 3>>}       \* update_freq and target_fps, in hertz
UserNames == {"logger", "render"}           \* names given to add_process
UserFrequency == 3                          \* the frequency given to add_process
Keycodes == {"SPACE", "F", "R"}

SamplerIdle == UNCHANGED <<phase, ctor_args, sampler, drone, payload, ret, timer, clock, probe>>

SimInit ==
    /\ phase = "new"
    /\ ctor_args = NoArgs
    /\ sampler = NoSampler
    /\ drone = [pos |-> <<0, 0, 0>>, yaw |-> 0, prop_vel |-> <<1, -1, 1, -1>>]
    /\ payload = [kind |-> "box", pos |-> <<0, 0, -5>>, shape |-> "skew"]
    /\ ret = NoRet
    /\ sim \in {NewSimulator(Rate, c[1], c[2]) : c \in Constructions}
    /\ timer = NoTimer
    /\ clock = 0
    /\ probe = NoProbe

(* the with-block of launch_viewer is entered, lines 169-175, or the       *)
(* launch fails; one with-block at a time                                  *)
launch_viewer ==
    /\ sim.viewer = None
    /\ \E raised \in BOOLEAN : sim' = LaunchViewer(sim, raised)
    /\ SamplerIdle

(* the with-block of launch_viewer is left, lines 176-179 *)
close_viewer ==
    /\ sim.viewer # None
    /\ \E raised \in BOOLEAN : sim' = CloseViewer(sim, raised)
    /\ SamplerIdle

add_process ==
    /\ \E name \in UserNames :
          /\ name \in Names(sim.processes) \/ Len(sim.processes) < 4 + MaxUserProcesses
          /\ sim' = AddProcess(sim, name, "user", UserFrequency)
    /\ SamplerIdle

tick ==
    /\ sim.tick_count < MaxTicks
    /\ sim' = Tick(sim)
    /\ SamplerIdle

pause_physics ==
    /\ sim' = PausePhysics([sim EXCEPT !.last = Did("pause_physics", "")])
    /\ SamplerIdle

toggle_render ==
    /\ sim' = ToggleRender([sim EXCEPT !.last = Did("toggle_render", "")])
    /\ SamplerIdle

(* the viewer calls handle_keypress, lines 252-282, between two ticks *)
handle_keypress ==
    /\ sim.viewer # None
    /\ \E keycode \in Keycodes, shift_pressed \in BOOLEAN :
          sim' = HandleKeypress([sim EXCEPT !.last = Did("handle_keypress", keycode)],
                                keycode, shift_pressed)
    /\ SamplerIdle

(* the user's code takes sim.processes[name] and calls one of its methods *)
process_pause ==
    /\ \E name \in Names(sim.processes) :
          sim' = Store([sim EXCEPT !.last = Did("pause", name)], name,
                       ProcessPause(Named(sim, name)))
    /\ SamplerIdle

process_resume ==
    /\ \E name \in Names(sim.processes) :
          sim' = Store([sim EXCEPT !.last = Did("resume", name)], name,
                       ProcessResume(Named(sim, name)))
    /\ SamplerIdle

process_toggle ==
    /\ \E name \in Names(sim.processes) :
          LET t == ProcessToggle(Named(sim, name))
          IN sim' = Store([sim EXCEPT !.last = [Did("toggle", name) EXCEPT !.result = Some(t.result)]],
                          name, t.self)
    /\ SamplerIdle

process_call ==
    /\ sim.frames < MaxFrames
    /\ \E name \in Names(sim.processes) :
          sim' = Call([sim EXCEPT !.last = Did("call", name)], IndexOf(sim.processes, name))
    /\ SamplerIdle

SimNext ==
    \/ launch_viewer
    \/ close_viewer
    \/ add_process
    \/ tick
    \/ pause_physics
    \/ toggle_render
    \/ handle_keypress
    \/ process_pause
    \/ process_resume
    \/ process_toggle
    \/ process_call

SimSpec == SimInit /\ [][SimNext]_vars

(* the simulator driven through its own methods only: nobody reaches into *)
(* sim.processes                                                           *)
OwnNext ==
    \/ launch_viewer
    \/ close_viewer
    \/ add_process
    \/ tick
    \/ pause_physics
    \/ toggle_render
    \/ handle_keypress

OwnSpec == SimInit /\ [][OwnNext]_vars

-----------------------------------------------------------------------------
(* The stopwatch on its own *)

TimerIdle == UNCHANGED <<phase, ctor_args, sampler, drone, payload, ret, sim, probe>>

TimeInit ==
    /\ phase = "new"
    /\ ctor_args = NoArgs
    /\ sampler = NoSampler
    /\ drone = [pos |-> <<0, 0, 0>>, yaw |-> 0, prop_vel |-> <<1, -1, 1, -1>>]
    /\ payload = [kind |-> "box", pos |-> <<0, 0, -5>>, shape |-> "skew"]
    /\ ret = NoRet
    /\ sim = NoSimulator
    /\ clock \in 0 .. 1
    /\ probe = NoProbe
    /\ timer = [self |-> PausableTime(clock), ran |-> 0, shown |-> None, op |-> "__init__"]

(* time passes between two calls *)
ClockAdvance ==
    /\ clock < MaxClock
    /\ \E d \in 1 .. MaxAdvance :
          /\ clock' = clock + d
          /\ timer' = [timer EXCEPT !.ran = IF timer.self.ticking THEN @ + d ELSE @,
                                    !.op = "wait"]
    /\ TimerIdle

timer_pause ==
    /\ timer' = [timer EXCEPT !.self = TimePause(@, clock), !.op = "pause"]
    /\ UNCHANGED clock
    /\ TimerIdle

timer_resume ==
    /\ timer' = [timer EXCEPT !.self = TimeResume(@, clock), !.op = "resume"]
    /\ UNCHANGED clock
    /\ TimerIdle

timer_call ==
    /\ timer' = [timer EXCEPT !.shown = Some(TimeRead(timer.self, clock)), !.op = "__call__"]
    /\ UNCHANGED clock
    /\ TimerIdle

timer_reset ==
    /\ timer' = [timer EXCEPT !.self = TimeReset(@, clock), !.ran = 0, !.op = "reset"]
    /\ UNCHANGED clock
    /\ TimerIdle

TimeNext == ClockAdvance \/ timer_pause \/ timer_resume \/ timer_call \/ timer_reset

TimeSpec == TimeInit /\ [][TimeNext]_vars

-----------------------------------------------------------------------------
(* The rounding of one coordinate on its own *)

ProbeIdle == UNCHANGED <<phase, ctor_args, sampler, drone, payload, ret, sim, timer, clock>>

RoundInit ==
    /\ phase = "new"
    /\ ctor_args = NoArgs
    /\ sampler = NoSampler
    /\ drone = [pos |-> <<0, 0, 0>>, yaw |-> 0, prop_vel |-> <<1, -1, 1, -1>>]
    /\ payload = [kind |-> "box", pos |-> <<0, 0, -5>>, shape |-> "skew"]
    /\ ret = NoRet
    /\ sim = NoSimulator
    /\ timer = NoTimer
    /\ clock = 0
    /\ probe = NoProbe

(* the doubles at and up to MaxBelow under every whole and every half      *)
(* centimetre up to the cube's edge, and 0                                 *)
Coordinates(n) ==
    {Zero64} \cup {Below(Divide(c, 200), j) : c \in 1 .. 2 * n + 1, j \in 0 .. MaxBelow}

(* __init__, line 72, for a cube of size n *)
set_index_upper_limit ==
    /\ probe.op = "none"
    /\ \E n \in 1 .. MaxRoundCube :
          probe' = [NoProbe EXCEPT !.n = n, !.index_upper_limit = IndexUpperLimit(n),
                                   !.op = "__init__"]
    /\ ProbeIdle

(* _gen_forces_one_side, lines 216-239, for one coordinate *)
gen_index ==
    /\ probe.op # "none"
    /\ \E x \in Coordinates(probe.n) : probe' = GenIndex(probe, x)
    /\ ProbeIdle

RoundNext == set_index_upper_limit \/ gen_index

RoundSpec == RoundInit /\ [][RoundNext]_vars

-----------------------------------------------------------------------------
(* What the properties below read off a state *)

Generated == ret.op = "generate_forces_opt"
Supported == {"box", "teardrop"}

(* a step of generate_forces_opt: the only action whose outcome carries    *)
(* its name                                                                *)
GenerateStep == ret'.op = "generate_forces_opt"

(* the batch that the k-th side of the last call was computed from *)
BatchOfSide(k) ==
    IF payload.kind = "box"
    THEN CASE ret.sides[k].name = "top" -> get_top_rectangle_data(payload)
           [] ret.sides[k].name = "bottom" -> get_bottom_rectangle_data(payload)
           [] ret.sides[k].name = "side_xz_n" -> get_side_xz_rectangle_data(payload).n
           [] ret.sides[k].name = "side_xz_p" -> get_side_xz_rectangle_data(payload).p
           [] ret.sides[k].name = "side_yz_n" -> get_side_yz_rectangle_data(payload).n
           [] ret.sides[k].name = "side_yz_p" -> get_side_yz_rectangle_data(payload).p
    ELSE CASE ret.sides[k].name = "top" -> get_top_data(payload)
           [] ret.sides[k].name = "bottom" -> get_bottom_data(payload)

(* a world position in the cube's frame: the cube's origin is the drone's  *)
(* position plus the rotated rotor offset, its axes are the drone's        *)
LocalOf(pos) ==
    qv_mult((4 - drone.yaw) % 4,
            VecSub(pos, VecAdd(qv_mult(drone.yaw, sampler.offset_from_drone_center[1]),
                               drone.pos)))

(* all three coordinates in [0, (N - 0.5) cm) *)
InCube(t) ==
    \A a \in 1 .. 3 : t[a] >= 0 /\ 2 * t[a] < (2 * sampler.cube_size[1] - 1) * PosScale

RECURSIVE InCubeOnly(_, _, _)
InCubeOnly(s, traffed, k) ==
    IF k > Len(s) THEN <<>>
    ELSE (IF InCube(traffed[k]) THEN <<s[k]>> ELSE <<>>) \o InCubeOnly(s, traffed, k + 1)

-----------------------------------------------------------------------------
(* C1: generate_forces_opt called with a payload that is neither a box nor *)
(* a teardrop raises the unsupported-payload RuntimeError, returns no      *)
(* force or torque, samples no surface, and leaves the sampler, the drone  *)
(* and the payload as they were.                                           *)
C1_UnsupportedPayloadRaises ==
    [][(GenerateStep /\ payload.kind \notin Supported) =>
          /\ ret'.status = "RuntimeError"
          /\ ret'.force = None /\ ret'.torque = None
          /\ ret'.sides = <<>>
          /\ sampler' = sampler /\ payload' = payload /\ drone' = drone]_vars

C1_Witness ==
    Generated /\ payload.kind \notin Supported /\ ret.status = "RuntimeError"

(* C2: in every surface batch a patch with a coordinate below 0 or at or   *)
(* above (N - 0.5) cm is dropped by the condition, a patch with all three  *)
(* inside is kept; only the kept patches are indexed, and the batch's      *)
(* force and torque are the sums over the kept patches alone.              *)
C2_OutsidePatchesContributeNothing ==
    Generated =>
        \A k \in DOMAIN ret.sides :
            LET s == ret.sides[k]
                inside == InCubeOnly(s.traffed, s.traffed, 1)
            IN /\ \A x \in DOMAIN s.traffed : s.condition[x] <=> InCube(s.traffed[x])
               /\ Len(s.indices) = Len(inside)
               /\ \A q \in DOMAIN inside :
                     s.indices[q] = <<Rint(inside[q][1]), Rint(inside[q][2]), Rint(inside[q][3])>>
               /\ s.status = "ok" =>
                     /\ Len(s.forces) = Len(inside) /\ Len(s.torques) = Len(inside)
                     /\ s.force = VecSum(s.forces)
                     /\ s.torque = VecSum(s.torques)

C2_Witness ==
    /\ Generated /\ ret.status = "ok"
    /\ \E k \in DOMAIN ret.sides :
          /\ \E x \in DOMAIN ret.sides[k].traffed : ~InCube(ret.sides[k].traffed[x])
          /\ \E x \in DOMAIN ret.sides[k].traffed : InCube(ret.sides[k].traffed[x])
          /\ ret.sides[k].force # Zero3

(* C3 as claimed: the payload offset of set_payload_offset is added to the *)
(* z coordinate of every transformed patch position before culling.        *)
C3_OffsetApplied ==
    Generated =>
        \A k \in DOMAIN ret.sides :
            \A x \in DOMAIN ret.sides[k].traffed :
                ret.sides[k].traffed[x] =
                    VecAdd(LocalOf(BatchOfSide(k).pos[x]),
                           <<0, 0, sampler.payload_offset_z_meter[1]>>)

(* C3 amended: set_payload_offset stores the offset in centimetres and in  *)
(* metres, and generate_forces_opt does not apply it: every patch is       *)
(* culled and indexed at its transformed position, whatever the offset.    *)
C3_OffsetStoredNotApplied ==
    /\ phase = "ready" =>
          sampler.payload_offset_z_meter[1] = sampler.payload_offset_z[1] * PosScale
    /\ Generated =>
          \A k \in DOMAIN ret.sides :
              /\ Len(ret.sides[k].traffed) = Len(BatchOfSide(k).pos)
              /\ \A x \in DOMAIN ret.sides[k].traffed :
                    ret.sides[k].traffed[x] = LocalOf(BatchOfSide(k).pos[x])

C3_Witness ==
    /\ Generated /\ ret.status = "ok"
    /\ sampler.payload_offset_z[1] > 0
    /\ \E k \in DOMAIN ret.sides : ret.sides[k].indices # <<>>

(* C4 as claimed: whenever a velocity dictionary is configured, every     *)
(* surface of a generate_forces_opt call queries it with the mean of the   *)
(* absolute values of the drone's four estimated rotor speeds, and that    *)
(* query value is never undefined.                                         *)
C4_VelocityQueryIsRepresentativeSpeed ==
    (Generated /\ sampler.USE_VELOCITY_DICTIONARY = Some(TRUE)) =>
        \A k \in DOMAIN ret.sides :
            ret.sides[k].velocity_query = Some(AbsAverageVelocity(drone.prop_vel))

(* the surfaces a payload exposes, in the order they are sampled *)
SurfaceNames ==
    IF payload.kind = "box"
    THEN <<"top", "bottom", "side_xz_n", "side_xz_p", "side_yz_n", "side_yz_p">>
    ELSE <<"top", "bottom">>

(* the side's record is the sampling of that surface's own batch *)
SideIsOfItsBatch(k) ==
    /\ Len(ret.sides[k].traffed) = Len(BatchOfSide(k).pos)
    /\ \A x \in DOMAIN ret.sides[k].traffed :
          ret.sides[k].traffed[x] = LocalOf(BatchOfSide(k).pos[x])
    /\ ret.sides[k].force = VecSum(ret.sides[k].forces)

(* C5: the force returned is the sum of the patch forces of the surviving  *)
(* patches over every surface of the payload, each surface once: top,      *)
(* bottom and the four sides of a box, top and bottom of a teardrop.       *)
C5_ForceSumsEverySurfaceOnce ==
    (Generated /\ ret.status = "ok") =>
        /\ [k \in DOMAIN ret.sides |-> ret.sides[k].name] = SurfaceNames
        /\ \A k \in DOMAIN ret.sides : SideIsOfItsBatch(k)
        /\ ret.force = Some(VecSum([k \in DOMAIN ret.sides |-> ret.sides[k].force]))

C5_Witness ==
    /\ Generated /\ ret.status = "ok" /\ payload.kind = "box"
    /\ \A k \in DOMAIN ret.sides : ret.sides[k].force # Zero3
    /\ ret.sides[3].force # ret.sides[4].force

(* the lever arms of the surviving patches of the k-th side *)
KeptLevers(k) == InCubeOnly(BatchOfSide(k).pos_in_own_frame, ret.sides[k].traffed, 1)

SideTorque(k) ==
    VecSum([q \in DOMAIN ret.sides[k].forces |->
               VecCross(KeptLevers(k)[q], ret.sides[k].forces[q])])

(* C6: the torque returned is the sum over surviving patches of lever arm  *)
(* x patch force, over every surface except the bottom of a box; the       *)
(* bottom of a teardrop counts.                                            *)
C6_TorqueOmitsBoxBottom ==
    (Generated /\ ret.status = "ok") =>
        /\ \A k \in DOMAIN ret.sides :
              /\ Len(KeptLevers(k)) = Len(ret.sides[k].forces)
              /\ ret.sides[k].torque = SideTorque(k)
        /\ ret.torque =
              Some(VecSum([k \in DOMAIN ret.sides |->
                              IF payload.kind = "box" /\ ret.sides[k].name = "bottom"
                              THEN Zero3 ELSE SideTorque(k)]))

C6_Witness ==
    /\ Generated /\ ret.status = "ok" /\ payload.kind = "box"
    /\ ret.sides[2].name = "bottom" /\ ret.sides[2].torque # Zero3
    /\ ret.torque # Some(Zero3)

C6_WitnessTeardrop ==
    /\ Generated /\ ret.status = "ok" /\ payload.kind = "teardrop"
    /\ ret.sides[2].name = "bottom" /\ ret.sides[2].torque # Zero3

(* the bounds b are what the dictionary's bounds look-up must return for  *)
(* the query q                                                             *)
TightestBounds(dict, q, b) ==
    LET ks == KeySet(dict)
        min == CHOOSE k \in ks : \A k2 \in ks : k <= k2
        max == CHOOSE k \in ks : \A k2 \in ks : k >= k2
    IN /\ b[1] \in ks /\ b[2] \in ks /\ b[1] <= b[2]
       /\ q <= min => b = <<min, min>>
       /\ q >= max => b = <<max, max>>
       /\ q \in ks => b = <<q, q>>
       /\ (min < q /\ q < max /\ q \notin ks) =>
             /\ b[1] < q /\ q < b[2]
             /\ ~ \E k \in ks : b[1] < k /\ k < b[2]

StrictlyIncreasing(keys) == \A x, y \in DOMAIN keys : x < y => keys[x] < keys[y]

(* C7: for a dictionary with strictly increasing keys the bounds used for  *)
(* a query q are two stored keys lo <= hi: (min,min) for q <= min,         *)
(* (max,max) for q >= max, (q,q) for a stored q, and otherwise adjacent    *)
(* stored keys with lo < q < hi; a query outside the range is no error.    *)
C7_BoundsClampAndBracket ==
    Generated =>
        \A k \in DOMAIN ret.sides :
            /\ ret.sides[k].pressure_bounds # None =>
                  /\ StrictlyIncreasing(sampler.loaded_pressures[1].keys)
                  /\ TightestBounds(sampler.loaded_pressures[1],
                                    ret.abs_average_velocity[1],
                                    ret.sides[k].pressure_bounds[1])
            /\ ret.sides[k].velocity_bounds # None =>
                  /\ StrictlyIncreasing(sampler.loaded_velocities[1].keys)
                  /\ TightestBounds(sampler.loaded_velocities[1],
                                    ret.sides[k].velocity_query[1],
                                    ret.sides[k].velocity_bounds[1])
            /\ (sampler.USE_PRESSURE_DICTIONARY = Some(TRUE)) =>
                  ret.sides[k].status = "ok" /\ ret.sides[k].pressure_bounds # None

C7_Witness ==
    /\ Generated /\ ret.status = "ok"
    /\ \E k \in DOMAIN ret.sides :
          /\ ret.sides[k].pressure_bounds # None
          /\ ret.sides[k].pressure_bounds[1][1] < ret.abs_average_velocity[1]
          /\ ret.abs_average_velocity[1] < ret.sides[k].pressure_bounds[1][2]

C7_WitnessBelow ==
    /\ Generated /\ ret.status = "ok"
    /\ \E k \in DOMAIN ret.sides :
          /\ ret.sides[k].pressure_bounds # None
          /\ ret.abs_average_velocity[1] < ret.sides[k].pressure_bounds[1][1]

C7_WitnessAbove ==
    /\ Generated /\ ret.status = "ok"
    /\ \E k \in DOMAIN ret.sides :
          /\ ret.sides[k].velocity_bounds # None
          /\ ret.sides[k].velocity_query[1] > ret.sides[k].velocity_bounds[1][2]

(* value is lower + t * (upper - lower) with t = (q - lo) / (hi - lo) in   *)
(* [0,1], or the single field's value when lo = hi                         *)
Interpolates(value, q, lower, upper, lo, hi) ==
    IF lo = hi THEN value = lower /\ value = upper
    ELSE /\ 0 <= q - lo /\ q - lo <= hi - lo
         /\ value * (hi - lo) = lower * (hi - lo) + (q - lo) * (upper - lower)
         /\ q = lo => value = lower
         /\ q = hi => value = upper

(* C8: in dictionary mode the value sampled at a surviving patch's cell is *)
(* lowerValue + t * (upperValue - lowerValue), t = (speed - lowerKey) /    *)
(* (upperKey - lowerKey) in [0,1], the two values read at that cell from   *)
(* the fields of the lower and the upper bounding key.                     *)
C8_DictionaryValuesInterpolate ==
    (Generated /\ ret.status = "ok") =>
        \A k \in DOMAIN ret.sides :
            LET s == ret.sides[k]
            IN /\ s.pressure_bounds # None =>
                     /\ Len(s.pressure_values) = Len(s.indices)
                     /\ \A x \in DOMAIN s.indices :
                           Interpolates(s.pressure_values[x], ret.abs_average_velocity[1],
                               sampler.loaded_pressures[1].arrays[s.pressure_bounds[1][1]][s.indices[x]],
                               sampler.loaded_pressures[1].arrays[s.pressure_bounds[1][2]][s.indices[x]],
                               s.pressure_bounds[1][1], s.pressure_bounds[1][2])
               /\ s.velocity_bounds # None =>
                     /\ Len(s.velocity_values) = Len(s.indices)
                     /\ \A x \in DOMAIN s.indices : \A a \in 1 .. 3 :
                           Interpolates(s.velocity_values[x][a], s.velocity_query[1],
                               sampler.loaded_velocities[1].arrays[s.velocity_bounds[1][1]][s.indices[x]][a],
                               sampler.loaded_velocities[1].arrays[s.velocity_bounds[1][2]][s.indices[x]][a],
                               s.velocity_bounds[1][1], s.velocity_bounds[1][2])

C8_Witness ==
    /\ Generated /\ ret.status = "ok"
    /\ \E k \in DOMAIN ret.sides :
          LET s == ret.sides[k]
          IN /\ s.pressure_bounds # None
             /\ s.pressure_bounds[1][1] < s.pressure_bounds[1][2]
             /\ \E x \in DOMAIN s.indices :
                   /\ s.pressure_values[x] #
                        sampler.loaded_pressures[1].arrays[s.pressure_bounds[1][1]][s.indices[x]]
                   /\ s.pressure_values[x] #
                        sampler.loaded_pressures[1].arrays[s.pressure_bounds[1][2]][s.indices[x]]
                   /\ 2 * (ret.abs_average_velocity[1] - s.pressure_bounds[1][1]) #
                        s.pressure_bounds[1][2] - s.pressure_bounds[1][1]

IsCube(c) == \E n \in 0 .. c : n * n * n = c
ConfigurationErrors == {"ValueError", "RuntimeError", "IndexError"}
PressureFromFile == ~ctor_args.LOAD_PRESSURE_DICTIONARY
VelocityFromFile ==
    ~ctor_args.LOAD_VELOCITY_DICTIONARY /\ ctor_args.data_file_name_velocity # None
VelocityElements ==
    ctor_args.data_file_name_velocity[1].rows * ctor_args.data_file_name_velocity[1].cols

(* C9: construction from a pressure file whose element count is no perfect *)
(* cube, or a velocity file whose element count is not three times a       *)
(* perfect cube, fails with a configuration error; when it succeeds, the   *)
(* cube size N has N*N*N = the number of pressure elements.                *)
C9_NonCubeInputFails ==
    phase # "new" =>
        /\ (PressureFromFile /\ ~IsCube(ctor_args.pressure_count)) => phase = "failed"
        /\ (VelocityFromFile /\ ~(\E m \in 0 .. VelocityElements :
                                      IsCube(m) /\ VelocityElements = 3 * m)) =>
               phase = "failed"
        /\ phase = "failed" => ret.op = "__init__" /\ ret.status \in ConfigurationErrors
        /\ (phase = "ready" /\ PressureFromFile) =>
               /\ sampler.cube_size[1] * sampler.cube_size[1] * sampler.cube_size[1]
                     = ctor_args.pressure_count
               /\ DOMAIN sampler.pressure_data[1] = Cells(sampler.cube_size[1])
        /\ (phase = "ready" /\ VelocityFromFile) =>
               3 * sampler.cube_size[1] * sampler.cube_size[1] * sampler.cube_size[1]
                     = VelocityElements

C9_Witness ==
    /\ phase = "failed" /\ PressureFromFile
    /\ ctor_args.pressure_count > 8 /\ ~IsCube(ctor_args.pressure_count)
    /\ ret.status = "ValueError"

C9_WitnessReady ==
    phase = "ready" /\ PressureFromFile /\ VelocityFromFile /\ ctor_args.pressure_count = 27

(* the cube size of the pressure source as given to the constructor, 0     *)
(* when the pressure file holds no cube                                    *)
PressureSourceSize ==
    IF ctor_args.LOAD_PRESSURE_DICTIONARY THEN ctor_args.pressure_dictionary_cube_size
    ELSE IF \E n \in 2 .. ctor_args.pressure_count : n * n * n = ctor_args.pressure_count
    THEN CHOOSE n \in 2 .. ctor_args.pressure_count : n * n * n = ctor_args.pressure_count
    ELSE 0

(* the cube size of the velocity source as given to the constructor, 0     *)
(* when the velocity file does not hold three numbers per cell of a cube   *)
VelocitySourceSize ==
    IF ctor_args.LOAD_VELOCITY_DICTIONARY THEN ctor_args.velocity_dictionary_cube_size
    ELSE IF \E n \in 1 .. VelocityElements : 3 * n * n * n = VelocityElements
    THEN CHOOSE n \in 1 .. VelocityElements : 3 * n * n * n = VelocityElements
    ELSE 0

HasVelocitySource == ctor_args.LOAD_VELOCITY_DICTIONARY \/ VelocityFromFile

(* C10: in all four combinations of pressure source and velocity source    *)
(* the constructor compares the velocity source's cube size with an        *)
(* initialised pressure cube size and fails when they differ, so every     *)
(* constructed sampler with a velocity source has one N for both.          *)
C10_VelocitySizeMatchesPressureSize ==
    (phase # "new" /\ HasVelocitySource) =>
        /\ ret.status # "AttributeError"
        /\ VelocitySourceSize # PressureSourceSize => phase = "failed"
        /\ phase = "ready" =>
              /\ sampler.cube_size = Some(PressureSourceSize)
              /\ sampler.cube_size = Some(VelocitySourceSize)
              /\ ctor_args.LOAD_VELOCITY_DICTIONARY =>
                    get_cube_size(sampler.loaded_velocities[1]) = sampler.cube_size[1]
              /\ ~ctor_args.LOAD_VELOCITY_DICTIONARY =>
                    DOMAIN sampler.velocity_data[1] = Cells(sampler.cube_size[1])

C10_Witness ==
    /\ phase = "ready"
    /\ ~ctor_args.LOAD_PRESSURE_DICTIONARY /\ ctor_args.LOAD_VELOCITY_DICTIONARY
    /\ sampler.cube_size = Some(ctor_args.velocity_dictionary_cube_size)

C10_WitnessMismatch ==
    /\ phase = "failed" /\ ret.status = "RuntimeError"
    /\ ctor_args.LOAD_PRESSURE_DICTIONARY /\ ctor_args.LOAD_VELOCITY_DICTIONARY

C10_WitnessDictFile ==
    phase = "ready" /\ ctor_args.LOAD_PRESSURE_DICTIONARY /\ VelocityFromFile

C10_WitnessDictDict ==
    phase = "ready" /\ ctor_args.LOAD_PRESSURE_DICTIONARY /\ ctor_args.LOAD_VELOCITY_DICTIONARY

C10_WitnessFileFile ==
    phase = "ready" /\ PressureFromFile /\ VelocityFromFile

(* the cube read back cell by cell, first index slowest *)
FlattenScalar(cube, n) ==
    [f \in 0 .. n * n * n - 1 |-> cube[<<f \div (n * n), (f \div n) % n, f % n>>]]

FlattenVector(cube, n) ==
    [e \in 0 .. 3 * n * n * n - 1 |->
        cube[<<(e \div 3) \div (n * n), ((e \div 3) \div n) % n, (e \div 3) % n>>][(e % 3) + 1]]

(* C11: cell (i,j,k) of the loaded pressure cube holds the flat element at *)
(* position i*N*N + j*N + k, so reading the cube back in that order        *)
(* recovers the file; component c of cell (i,j,k) of the velocity cube is  *)
(* the flat element at 3*(i*N*N + j*N + k) + c.                            *)
C11_ReshapeRoundTrip ==
    phase = "ready" =>
        LET N == sampler.cube_size[1]
        IN /\ PressureFromFile =>
                LET tmp == PressureFile(ctor_args.pressure_count, ctor_args.pressure_variant)
                IN /\ DOMAIN tmp = 0 .. N * N * N - 1
                   /\ \A c \in Cells(N) :
                         sampler.pressure_data[1][c] = tmp[c[1] * N * N + c[2] * N + c[3]]
                   /\ FlattenScalar(sampler.pressure_data[1], N) = tmp
           /\ VelocityFromFile =>
                LET tmp == VelocityFile(VelocityElements)
                IN /\ DOMAIN tmp = 0 .. 3 * N * N * N - 1
                   /\ \A c \in Cells(N) : \A x \in 0 .. 2 :
                         sampler.velocity_data[1][c][x + 1] =
                             tmp[3 * (c[1] * N * N + c[2] * N + c[3]) + x]
                   /\ FlattenVector(sampler.velocity_data[1], N) = tmp

C11_Witness ==
    /\ phase = "ready" /\ PressureFromFile /\ VelocityFromFile
    /\ ctor_args.pressure_variant # "uniform"
    /\ sampler.cube_size = Some(3)
    /\ sampler.pressure_data[1][<<1, 0, 2>>] # sampler.pressure_data[1][<<2, 0, 1>>]

NoVelocitySource ==
    sampler.USE_VELOCITY_DICTIONARY = Some(FALSE) /\ sampler.use_velocity = Some(FALSE)

(* lever arms, normals and areas of the patches the k-th side kept *)
KeptOfSide(k) == Kept(BatchOfSide(k), ret.sides[k].condition)

(* the pressure the k-th side has at its x-th kept patch: the grid's value *)
(* at the patch's cell, or the dictionary's interpolated value there       *)
PressureAtPatch(k, x) ==
    IF sampler.USE_PRESSURE_DICTIONARY = Some(TRUE)
    THEN ret.sides[k].pressure_values[x]
    ELSE sampler.pressure_data[1][ret.sides[k].indices[x]]

(* C12: with no velocity source every surviving patch's force is           *)
(* -pressure * normal * area with the pressure read at the patch's cell;   *)
(* for N = 21 and a uniform pressure of 100 a patch with normal (0,0,1),   *)
(* area 0.01 and zero lever arm has force (0,0,-1.0) and torque (0,0,0),   *)
(* which are the side's force and torque when it is the only survivor.     *)
(* Areas are in hundredths of a square metre, forces in hundredths of a    *)
(* newton.                                                                 *)
C12_PressureForcePerPatch ==
    (Generated /\ ret.status = "ok" /\ NoVelocitySource) =>
        \A k \in DOMAIN ret.sides :
            LET s == ret.sides[k]
                kept == KeptOfSide(k)
            IN /\ Len(s.forces) = Len(s.indices)
               /\ \A x \in DOMAIN s.indices :
                     /\ s.indices[x] \in Cells(sampler.cube_size[1])
                     /\ s.forces[x] =
                           VecScale(0 - (PressureAtPatch(k, x) * AreaAt(kept.area, kept.ndim, x)),
                                    NormalAt(kept.normal, kept.ndim, x))
                     /\ s.torques[x] = VecCross(kept.pos_in_own_frame[x], s.forces[x])
                     /\ ( /\ sampler.cube_size = Some(21)
                          /\ ctor_args.pressure_variant = "uniform"
                          /\ NormalAt(kept.normal, kept.ndim, x) = <<0, 0, 1>>
                          /\ AreaAt(kept.area, kept.ndim, x) = 1
                          /\ kept.pos_in_own_frame[x] = Zero3 ) =>
                            /\ s.forces[x] = <<0, 0, -100>>
                            /\ s.torques[x] = Zero3
                            /\ Len(s.indices) = 1 =>
                                  s.force = <<0, 0, -100>> /\ s.torque = Zero3

C12_Witness ==
    /\ Generated /\ ret.status = "ok" /\ NoVelocitySource
    /\ sampler.cube_size = Some(21) /\ ctor_args.pressure_variant = "uniform"
    /\ \E k \in DOMAIN ret.sides :
          /\ Len(ret.sides[k].indices) = 1
          /\ KeptOfSide(k).pos_in_own_frame[1] = Zero3
          /\ NormalAt(KeptOfSide(k).normal, KeptOfSide(k).ndim, 1) = <<0, 0, 1>>
          /\ AreaAt(KeptOfSide(k).area, KeptOfSide(k).ndim, 1) = 1
          /\ ret.sides[k].force = <<0, 0, -100>>

C12_WitnessGraded ==
    /\ Generated /\ ret.status = "ok" /\ NoVelocitySource
    /\ ctor_args.pressure_variant = "graded"
    /\ \E k \in DOMAIN ret.sides : Len(ret.sides[k].indices) > 1

(* the surviving patches of the last call, as <<side, position in side>> *)
Survivors ==
    UNION {{<<k, x>> : x \in DOMAIN ret.sides[k].indices} : k \in DOMAIN ret.sides}

PatchOf(b) ==
    LET kept == KeptOfSide(b[1])
    IN [r |-> kept.pos_in_own_frame[b[2]],
        n |-> NormalAt(kept.normal, kept.ndim, b[2]),
        a |-> AreaAt(kept.area, kept.ndim, b[2])]

(* q has p's area and normal, and a lever arm that differs from p's only   *)
(* along the normal                                                        *)
Alike(p, q) == q.a = p.a /\ q.n = p.n /\ VecCross(VecSub(p.r, q.r), p.n) = Zero3

(* q is a partner of p: equal area, opposite normal, lever arm mirrored    *)
(* across a plane perpendicular to the normal                              *)
Mirrors(p, q) ==
    q.a = p.a /\ q.n = VecScale(-1, p.n) /\ VecCross(VecSub(p.r, q.r), p.n) = Zero3

(* the survivors can be paired off, every patch with a partner of its own *)
SymmetricSurvivors ==
    /\ Survivors # {}
    /\ \A b \in Survivors :
          Cardinality({c \in Survivors : Alike(PatchOf(b), PatchOf(c))}) =
          Cardinality({c \in Survivors : Mirrors(PatchOf(b), PatchOf(c))})

UniformPressureOnly ==
    /\ Generated /\ ret.status = "ok" /\ NoVelocitySource
    /\ PressureFromFile /\ ctor_args.pressure_variant = "uniform"

(* the torque of the box's bottom patches, which generate_forces_opt       *)
(* computes and leaves out of its sum                                      *)
OmittedTorque ==
    IF payload.kind = "box"
    THEN ret.sides[CHOOSE k \in DOMAIN ret.sides : ret.sides[k].name = "bottom"].torque
    ELSE Zero3

(* C13 as claimed: in a uniform pressure field with no velocity source a   *)
(* payload whose surviving patches form a symmetric set yields zero net    *)
(* force and zero net torque.                                              *)
C13_SymmetricSetCancels ==
    (UniformPressureOnly /\ SymmetricSurvivors) =>
        ret.force = Some(Zero3) /\ ret.torque = Some(Zero3)

(* C13: in a uniform pressure field with no velocity source a payload      *)
(* whose surviving patches form a symmetric set yields zero net force; the *)
(* net torque is zero for a teardrop payload and, for a box payload, is    *)
(* the opposite of the torque of the bottom patches, which is left out of  *)
(* the sum.                                                                *)
C13_SymmetricSetCancelsButBoxBottom ==
    (UniformPressureOnly /\ SymmetricSurvivors) =>
        /\ ret.force = Some(Zero3)
        /\ VecAdd(ret.torque[1], OmittedTorque) = Zero3

C13_Witness ==
    /\ UniformPressureOnly /\ SymmetricSurvivors
    /\ payload.kind = "box"
    /\ ret.force = Some(Zero3)
    /\ ret.torque # Some(Zero3)

C13_WitnessTeardrop ==
    /\ UniformPressureOnly /\ SymmetricSurvivors
    /\ payload.kind = "teardrop"
    /\ \E k \in DOMAIN ret.sides : ret.sides[k].force # Zero3

VelocityConfigured ==
    sampler.USE_VELOCITY_DICTIONARY = Some(TRUE) \/ sampler.use_velocity = Some(TRUE)

PressureTerm(k, x) ==
    forces_from_pressures(KeptOfSide(k).normal, ret.sides[k].pressure_values,
                          KeptOfSide(k).area, KeptOfSide(k).ndim)[x]

VelocityTerm(k, x) ==
    forces_from_velocities(KeptOfSide(k).normal, ret.sides[k].velocity_values,
                           KeptOfSide(k).area, KeptOfSide(k).ndim)[x]

C14_WitnessGrid ==
    /\ Generated /\ ret.status = "ok"
    /\ sampler.USE_VELOCITY_DICTIONARY = Some(FALSE) /\ sampler.use_velocity = Some(TRUE)
    /\ \E k \in DOMAIN ret.sides : \E x \in DOMAIN ret.sides[k].indices :
          VelocityTerm(k, x) # Zero3

C14_WitnessNeither ==
    /\ Generated /\ ret.status = "ok" /\ ~VelocityConfigured
    /\ \E k \in DOMAIN ret.sides : \E x \in DOMAIN ret.sides[k].indices :
          ret.sides[k].forces[x] # Zero3

(* what the constructor loaded and derived, the payload offset aside *)
LoadedAndDerived(self) ==
    <<self.cube_size, self.cube_size_meter, self.index_upper_limit,
      self.offset_from_drone_center, self.pressure_data, self.loaded_pressures,
      self.velocity_data, self.loaded_velocities, self.USE_PRESSURE_DICTIONARY,
      self.USE_VELOCITY_DICTIONARY, self.use_velocity>>

(* the payload's patch batches: positions, lever arms, normals, areas *)
BatchesOf(p) ==
    IF p.kind \notin Supported THEN <<>>
    ELSE [k \in DOMAIN SurfacesOf(p)[1] |-> SurfacesOf(p)[1][k].batch]

(* C15: once constructed, no call of generate_forces_opt changes the       *)
(* sampler (cube size, index upper limit, rotor-centre offset, payload     *)
(* offset, grid data) or the payload's patch batches; no step at all       *)
(* changes what was loaded and derived at construction; and the payload    *)
(* offset changes only in a step of set_payload_offset.                    *)
C15_GenerateForcesLeavesSamplerAndPayload ==
    [][phase = "ready" =>
          /\ GenerateStep =>
                /\ sampler' = sampler
                /\ payload' = payload
                /\ BatchesOf(payload') = BatchesOf(payload)
          /\ LoadedAndDerived(sampler') = LoadedAndDerived(sampler)
          /\ sampler'.payload_offset_z # sampler.payload_offset_z => set_payload_offset
          /\ sampler'.payload_offset_z_meter # sampler.payload_offset_z_meter =>
                set_payload_offset]_vars

C15_Witness ==
    /\ Generated /\ ret.status = "ok"
    /\ sampler.payload_offset_z = Some(1)
    /\ \E k \in DOMAIN ret.sides : ret.sides[k].indices # <<>>

-----------------------------------------------------------------------------
(* C16 *)

TickStep == sim'.last.op = "tick"

(* the functions of the registered processes that are not paused and whose *)
(* interval divides the tick count, in registration order                  *)
RECURSIVE DueFrom(_, _)
DueFrom(self, i) ==
    IF i > Len(self.processes) THEN <<>>
    ELSE LET p == self.processes[i].process
         IN (IF ~p.paused /\ self.tick_count % Max(1, Ceil(self.rate, p.frequency)) = 0
             THEN <<p.func>> ELSE <<>>) \o DueFrom(self, i + 1)

Due(self) == DueFrom(self, 1)

(* C16: a tick entered with tick_count = c invokes exactly the registered  *)
(* processes that are not paused and whose interval divides c, once each   *)
(* and in registration order, and then sets tick_count to c + 1, whether   *)
(* or not the physics process is paused.                                   *)
C16_TickInvokesDueAndAdvances ==
    [][TickStep => /\ sim'.last.invoked = Due(sim)
                   /\ sim'.tick_count = sim.tick_count + 1]_vars

(* the same for the ticks in which no process function raises *)
C16_CompletedTickInvokesDueAndAdvances ==
    [][TickStep /\ sim'.last.status = "ok" =>
            /\ sim'.last.invoked = Due(sim)
            /\ sim'.tick_count = sim.tick_count + 1]_vars

(* a tick without a viewer in which sync was due: update_objects has run,  *)
(* sync has raised, the later processes have not run and the tick was not  *)
(* counted                                                                 *)
C16_TickWithoutViewer ==
    /\ sim.last.op = "tick"
    /\ sim.last.status = "AttributeError"
    /\ sim.viewer = None
    /\ sim.tick_count = 0
    /\ sim.last.invoked = <<"update_objects", "sync">>

(* a completed tick with the physics paused and another process invoked *)
C16_TickWhilePhysicsPaused ==
    /\ sim.last.op = "tick"
    /\ sim.last.status = "ok"
    /\ Named(sim, "physics").paused
    /\ sim.last.invoked # <<>>
    /\ sim.tick_count = MaxTicks

-----------------------------------------------------------------------------
(* C17 *)

(* the operation just made is one that can invoke process functions *)
InvokingStep == sim'.last.op \in {"tick", "call"}

(* some process registered with the function is not paused *)
RunsUnpaused(self, func) ==
    \E i \in DOMAIN self.processes :
        self.processes[i].process.func = func /\ ~self.processes[i].process.paused

(* a direct call of a process that was paused *)
CallOfPaused == sim'.last.op = "call" /\ Named(sim, sim'.last.name).paused

(* C17: the function of a process is never invoked while the process is    *)
(* paused, by tick or by a direct call; a direct call of a paused process  *)
(* only warns; the render process is paused at construction and a frame is *)
(* saved only in a step that starts with the render process running.       *)
C17_PausedProcessNeverInvoked ==
    /\ [](sim.last.op = "__init__" => Named(sim, "render").paused /\ sim.frames = 0)
    /\ [][/\ InvokingStep =>
                \A j \in DOMAIN sim'.last.invoked : RunsUnpaused(sim, sim'.last.invoked[j])
          /\ CallOfPaused =>
                /\ sim'.last.invoked = <<>>
                /\ sim'.last.warnings = 1
                /\ sim'.last.status = "ok"
                /\ sim'.processes = sim.processes
                /\ sim'.frames = sim.frames
                /\ sim'.tick_count = sim.tick_count
          /\ sim'.frames # sim.frames => ~Named(sim, "render").paused]_vars

(* a paused process was called directly *)
C17_Witness ==
    /\ sim.last.op = "call"
    /\ Named(sim, sim.last.name).paused
    /\ sim.last.warnings = 1

(* a tick at which the paused render process was due, with a viewer *)
C17_WitnessTickSkipsRender ==
    /\ sim.last.op = "tick"
    /\ sim.last.status = "ok"
    /\ sim.tick_count = 1
    /\ sim.viewer # None
    /\ Named(sim, "render").paused
    /\ sim.last.invoked = <<"update_objects", "sync", "mj_step">>

(* a tick saved a frame after the render process was turned on *)
C17_WitnessFrame ==
    /\ sim.last.op = "tick"
    /\ sim.frames > 0
    /\ \E j \in DOMAIN sim.last.invoked : sim.last.invoked[j] = "render_viewer_data"

-----------------------------------------------------------------------------
(* C18 *)

AddStep == sim'.last.op = "add_process"

(* everything of the simulator but its processes and its last operation *)
SimulatorRest(self) == <<self.rate, self.tick_count, self.viewer, self.frames>>

(* C18: add_process with a name already registered leaves the process      *)
(* under that name and the set of names as they were and prints a warning; *)
(* with a new name it registers exactly one new process, not paused, under *)
(* that name, with the function and the frequency given.                   *)
C18_AddProcessKeepsOrAddsOne ==
    [][AddStep =>
         /\ SimulatorRest(sim') = SimulatorRest(sim)
         /\ IF sim'.last.name \in Names(sim.processes)
            THEN /\ sim'.processes = sim.processes
                 /\ sim'.last.warnings = 1
            ELSE /\ Len(sim'.processes) = Len(sim.processes) + 1
                 /\ SubSeq(sim'.processes, 1, Len(sim.processes)) = sim.processes
                 /\ Names(sim'.processes) = Names(sim.processes) \cup {sim'.last.name}
                 /\ Named(sim', sim'.last.name) =
                        [func |-> "user", frequency |-> UserFrequency, paused |-> FALSE]
                 /\ sim'.last.warnings = 0]_vars

(* add_process was called with the name of the render process, which is   *)
(* paused and has another function and frequency than the ones given      *)
C18_Witness ==
    /\ sim.last.op = "add_process"
    /\ sim.last.name = "render"
    /\ sim.last.warnings = 1
    /\ Named(sim, "render").paused
    /\ Named(sim, "render").func = "render_viewer_data"
    /\ Named(sim, "render").frequency # UserFrequency

(* add_process was called with a new name *)
C18_WitnessNew ==
    /\ sim.last.op = "add_process"
    /\ sim.last.name = "logger"
    /\ sim.last.warnings = 0
    /\ Len(sim.processes) = 5

(* add_process was called again with the name of a process of the user     *)
(* that had been paused                                                    *)
C18_WitnessAgain ==
    /\ sim.last.op = "add_process"
    /\ sim.last.name = "logger"
    /\ sim.last.warnings = 1
    /\ Named(sim, "logger").paused

-----------------------------------------------------------------------------
(* C19 *)

(* toggle flips the flag of p, touches nothing else and returns whether    *)
(* the process runs afterwards; toggle, pause and resume applied twice     *)
ToggleLaws(p) ==
    LET t == ProcessToggle(p)
    IN /\ t.self = [p EXCEPT !.paused = ~p.paused]
       /\ t.result = ~t.self.paused
       /\ ProcessToggle(t.self).self = p
       /\ ProcessToggle(t.self).result = ~p.paused
       /\ ProcessPause(ProcessPause(p)) = ProcessPause(p)
       /\ ProcessResume(ProcessResume(p)) = ProcessResume(p)
       /\ ProcessPause(p).paused
       /\ ~ProcessResume(p).paused

(* the process was toggled through its Process object or by toggle_render *)
ToggledName ==
    IF sim'.last.op = "toggle_render" THEN "render" ELSE sim'.last.name

(* C19: toggle flips the paused flag and returns true exactly when the     *)
(* process runs after the call; two toggles in a row restore the process,  *)
(* pause after pause is one pause, resume after resume is one resume.      *)
C19_ToggleFlipsAndReports ==
    /\ [](\A i \in DOMAIN sim.processes : ToggleLaws(sim.processes[i].process))
    /\ [][sim'.last.op \in {"toggle", "toggle_render"} =>
             /\ Named(sim', ToggledName) =
                    [Named(sim, ToggledName) EXCEPT !.paused = ~Named(sim, ToggledName).paused]
             /\ sim'.last.result = Some(~Named(sim', ToggledName).paused)
             /\ \A i \in DOMAIN sim.processes :
                    sim.processes[i].name # ToggledName => sim'.processes[i] = sim.processes[i]]_vars

(* toggle has paused a running process and returned false *)
C19_Witness ==
    /\ sim.last.op = "toggle"
    /\ sim.last.result = Some(FALSE)
    /\ Named(sim, sim.last.name).paused

(* toggle has started a paused process and returned true *)
C19_WitnessOn ==
    /\ sim.last.op = "toggle"
    /\ sim.last.result = Some(TRUE)
    /\ ~Named(sim, sim.last.name).paused

(* toggle_render has turned the rendering on *)
C19_WitnessRender ==
    /\ sim.last.op = "toggle_render"
    /\ sim.last.result = Some(TRUE)
    /\ ~Named(sim, "render").paused

-----------------------------------------------------------------------------
(* C20 *)

(* what the timer reports when it is read now *)
Reported == TimeRead(timer.self, clock)

(* C20: the value a PausableTime reports is the clock time during which it *)
(* was ticking since its construction or last reset; while it is paused    *)
(* the value stays as it is, pause on a paused timer and resume on a       *)
(* ticking timer change nothing, resume continues from the frozen value,   *)
(* and reset makes the value 0 and leaves the timer ticking.               *)
C20_ReportsTickingTime ==
    /\ [](/\ Reported = timer.ran
          /\ timer.op = "__call__" => timer.shown = Some(timer.ran))
    /\ [][/\ timer'.op = "wait" /\ ~timer.self.ticking => Reported' = Reported
          /\ timer'.op = "pause" /\ ~timer.self.ticking => timer'.self = timer.self
          /\ timer'.op = "pause" => Reported' = Reported /\ ~timer'.self.ticking
          /\ timer'.op = "resume" /\ timer.self.ticking => timer'.self = timer.self
          /\ timer'.op = "resume" => Reported' = Reported /\ timer'.self.ticking
          /\ timer'.op = "reset" => Reported' = 0 /\ timer'.self.ticking]_vars

(* the timer was paused, resumed later and read while the clock went on *)
C20_Witness ==
    /\ timer.op = "__call__"
    /\ timer.self.ticking
    /\ timer.self.sum_time > 0
    /\ clock > timer.self.last_started
    /\ timer.shown = Some(timer.ran)
    /\ timer.ran < clock - 1

(* time has passed while the timer was paused *)
C20_WitnessPaused ==
    /\ timer.op = "wait"
    /\ ~timer.self.ticking
    /\ timer.self.sum_time > 0
    /\ clock > timer.self.last_started + timer.self.sum_time

(* the timer was reset after the clock had advanced *)
C20_WitnessReset ==
    /\ timer.op = "reset"
    /\ clock > 1
    /\ timer.self.last_started = clock

-----------------------------------------------------------------------------
(* C21 *)

(* the context of launch_viewer has just been left: the with-block ended   *)
(* or raised, or the launch itself raised                                  *)
ContextLeft(self) ==
    \/ self.last.op = "close_viewer"
    \/ self.last.op = "launch_viewer" /\ self.last.status # "ok"

Invoked(self, func) == \E j \in DOMAIN self.last.invoked : self.last.invoked[j] = func

(* C21: when the context of launch_viewer is left, by the end of the body, *)
(* by an exception of the body or by an exception of the launch, the       *)
(* renderer's write is called, a viewer that had been launched is closed,  *)
(* and Simulator.viewer is None afterwards.                                *)
C21_LeavingWritesAndCloses ==
    /\ [](ContextLeft(sim) => Invoked(sim, "write") /\ sim.viewer = None)
    /\ [][ContextLeft(sim') =>
             /\ Invoked(sim', "write")
             /\ sim.viewer # None <=> Invoked(sim', "close")
             /\ sim'.viewer = None
             /\ sim'.processes = sim.processes
             /\ sim'.tick_count = sim.tick_count]_vars

(* the body of the with-block raised *)
C21_Witness ==
    /\ sim.last.op = "close_viewer"
    /\ sim.last.status = "Exception"
    /\ sim.last.invoked = <<"write", "close">>
    /\ sim.viewer = None

(* the with-block ended *)
C21_WitnessNormal ==
    /\ sim.last.op = "close_viewer"
    /\ sim.last.status = "ok"
    /\ sim.last.invoked = <<"write", "close">>

(* the launch raised: nothing to close *)
C21_WitnessLaunchRaised ==
    /\ sim.last.op = "launch_viewer"
    /\ sim.last.status = "RuntimeError"
    /\ sim.last.invoked = <<"bind_scene", "launch_passive", "write">>
    /\ sim.viewer = None

-----------------------------------------------------------------------------
(* C23 *)

PhysicsPaused(self) == Named(self, "physics").paused
UpdatePaused(self) == Named(self, "update").paused

(* pause_physics has just run, called directly or by the space key *)
PausePhysicsStep ==
    \/ sim'.last.op = "pause_physics"
    \/ sim'.last.op = "handle_keypress" /\ sim'.last.name = "SPACE" /\ sim'.processes # sim.processes

(* C23: as long as the simulator is driven through its own operations the *)
(* physics and the update process have the same paused flag, and          *)
(* pause_physics pauses both when the physics runs and resumes both when  *)
(* it is paused.                                                          *)
C23_PhysicsAndUpdatePausedTogether ==
    /\ [](PhysicsPaused(sim) = UpdatePaused(sim))
    /\ [][PausePhysicsStep =>
             /\ PhysicsPaused(sim') = ~PhysicsPaused(sim)
             /\ UpdatePaused(sim') = ~PhysicsPaused(sim)]_vars

(* pause_physics has paused both processes *)
C23_Witness ==
    /\ sim.last.op = "pause_physics"
    /\ PhysicsPaused(sim)
    /\ UpdatePaused(sim)

(* the space key has resumed both processes after some ticks *)
C23_WitnessResumed ==
    /\ sim.last.op = "handle_keypress"
    /\ sim.last.name = "SPACE"
    /\ sim.tick_count > 0
    /\ ~PhysicsPaused(sim)
    /\ ~UpdatePaused(sim)
    /\ ~Named(sim, "render").paused

-----------------------------------------------------------------------------
(* C22 *)

(* C22: every index _gen_forces_one_side reads a grid with is in 0 .. N-1: *)
(* a coordinate x with 0 <= x < (N - 0.5) / 100 gives, when 100 * x is     *)
(* rounded to the nearest integer, ties to even, a value in 0 .. N-1, so   *)
(* no read wraps around or falls outside the cube.                         *)
C22_IndicesInsideCube ==
    probe.op = "_gen_forces_one_side" /\ probe.condition =>
        /\ probe.index[1] >= 0
        /\ probe.index[1] <= probe.n - 1
        /\ probe.error = None

(* the same for the cubes of up to 11 cells a side *)
C22_IndicesInsideSmallCube ==
    probe.op = "_gen_forces_one_side" /\ probe.condition /\ probe.n < 12 =>
        /\ probe.index[1] >= 0
        /\ probe.index[1] <= probe.n - 1
        /\ probe.error = None

(* a cube of 12 cells a side and the largest double under its limit: the   *)
(* patch is kept and index 12 is read                                      *)
C22_IndexOutsideCube ==
    /\ probe.op = "_gen_forces_one_side"
    /\ probe.n = 12
    /\ probe.pos_traffed = Pred(probe.index_upper_limit)
    /\ probe.condition
    /\ probe.index = Some(12)
    /\ probe.error = Some("IndexError")

====
